---- MODULE Spec2Model ----
(***************************************************************************)
(* Model of the akita-dao terminal dashboard: the view state machine       *)
(* (startTUI), the key listener (startKeyListener) and the raw-mode        *)
(* lifecycle (terminal.ts).                                                *)
(***************************************************************************)
EXTENDS Integers, Sequences, FiniteSets, TLC

\* ---------------------------------------------------------------------------
\* Program constants
\* ---------------------------------------------------------------------------

TABS == <<"dao", "fees", "wallet", "proposals">>

TabIds == {TABS[i] : i \in 1..Len(TABS)}

CACHE_TTL == 30000

LIST_CACHE_TTL == 120000

WALLET_CACHE_TTL == 30000

ESC_DELAY == 50

PAGE_STEP == 10

WIDE_COLS == 80

CHROME_ROWS == 3

\* ---------------------------------------------------------------------------
\* Bounds of the model
\* ---------------------------------------------------------------------------

\* number of View loads that may be begun in one run
MaxGen == 3

\* depth of the drill-down stack
MaxStack == 1

\* the clock stops advancing after this many milliseconds past StartTime
MaxElapsed == 30001

\* number of input chunks in one run of the key listener
MaxChunks == 2

\* Date.now() at start-up (an epoch time, larger than every TTL)
StartTime == 200000

\* steps by which the clock advances between events
ClockSteps == {29999, 30000, 30001}

\* the key listener is observed for this many milliseconds
MaxWait == 100

\* steps by which the clock advances while the key listener is observed
TimerSteps == {25}

\* terminal sizes the user may resize to
TermSizes == {<<4, 100>>, <<6, 60>>}

\* the views a drill-down may open
NavTargets == {"fees"}

\* sizes of the content the views produce
LineCounts == {2, 4}

RightCounts == {3}

\* what the provider reports when a view refetches
ProposalCounts == {0, 2}

AccountCounts == {1, 2}

\* messages of the failures the provider raises
Messages == {"boom"}

VARIABLES
    \* AppState (types.ts) held by startTUI
    tab, scrollOffset, cursor, viewStack, jsonMode,
    \* closure state of startTUI
    cache, currentLines, currentFixedRight, loading, loadGeneration,
    pendingScrollTo, stopKeyListener, removeResizeListener,
    \* the suspended loadAndRender calls (one per View load begun)
    loads,
    \* module state of the proposals view
    listCacheTs, proposalCount, propCursor,
    \* module state of the wallet view
    walletCacheTs, accountIdx, accountCount, selectedLine,
    \* terminal.ts and the process
    isRawMode, isTTY, stdinRaw, altScreen, cursorHidden, exitCode,
    keyListener, resizeListener,
    \* environment
    now, rows, cols,
    \* key listener (input.ts)
    escTimer, escChunk, arrived, delivered,
    \* what the last step did (history)
    ev,
    \* what terminal.ts has written to stdout (escape sequences, in order)
    written,
    \* library functions called on their own: the pending or finished call of
    \* a pure function, and the calls made so far of the terminal functions
    call, calls,
    \* the generation this run stops beginning loads at
    genLimit

appVars == <<tab, scrollOffset, cursor, viewStack, jsonMode>>

tuiVars == <<cache, currentLines, currentFixedRight, loading, loadGeneration,
             pendingScrollTo, loads>>

viewVars == <<listCacheTs, proposalCount, propCursor,
              walletCacheTs, accountIdx, accountCount, selectedLine>>

termVars == <<isRawMode, isTTY, stdinRaw, altScreen, cursorHidden, exitCode,
              stopKeyListener, removeResizeListener, keyListener, resizeListener,
              written>>

envVars == <<now, rows, cols>>

inputVars == <<escTimer, escChunk, arrived, delivered>>

libVars == <<call, calls, genLimit>>

vars == <<appVars, tuiVars, viewVars, termVars, envVars, inputVars, ev, libVars>>

\* ---------------------------------------------------------------------------
\* Helpers
\* ---------------------------------------------------------------------------

Max(a, b) == IF a >= b THEN a ELSE b

Min(a, b) == IF a <= b THEN a ELSE b

Running == -1

NoTimer == -1

IndexOfTab(t) == CHOOSE i \in 1..Len(TABS) : TABS[i] = t

ViewId(t) == [tab |-> t]

viewKey(vid) == vid.tab

CurrentViewIdOf(stack, t) ==
    IF Len(stack) > 0 THEN stack[Len(stack)] ELSE ViewId(t)

currentViewId == CurrentViewIdOf(viewStack, tab)

ViewportHeightOf(r) == r - CHROME_ROWS

viewportHeight == ViewportHeightOf(rows)

TotalLines(lines, right) == Max(Len(lines), Len(right))

MaxScroll(lines, right, vh) == Max(0, TotalLines(lines, right) - vh)

ClampScroll(so, lines, right, vh) ==
    Max(0, Min(so, MaxScroll(lines, right, vh)))

EnsureLineVisible(line, so, vh) ==
    IF line < so THEN line
    ELSE IF line >= so + vh THEN line - vh + 1
    ELSE so

ProposalCursorLine(c) == 3 + c

\* a step that stops at either end instead of wrapping around
CycleIndexNoWrap(idx, dir, count) == Max(0, Min(count - 1, idx + dir))

CycleIndex(idx, dir, count) == (idx + dir + count) % count

CycleProposalCursor(c, dir, count) ==
    IF count <= 0 THEN c ELSE CycleIndex(c, dir, count)

CycleWalletAccount(idx, dir, count) ==
    IF count <= 1 THEN idx ELSE CycleIndex(idx, dir, count)

\* the age test with the boundary on the wrong side
CacheFreshInclusive(entryTs, t) == t - entryTs <= CACHE_TTL

CacheFresh(entryTs, t) == t - entryTs < CACHE_TTL

CacheHit(force, json, ch, key, t) ==
    /\ ~force
    /\ ~json
    /\ key \in DOMAIN ch
    /\ CacheFresh(ch[key].ts, t)

CacheSet(ch, key, entry) ==
    [k \in DOMAIN ch \cup {key} |-> IF k = key THEN entry ELSE ch[k]]

\* a completion that stores its result whatever the mode
CacheAfterLoadAlways(json, ch, key, entry) == CacheSet(ch, key, entry)

\* if (!state.jsonMode) cache.set(key, entry)
CacheAfterLoad(json, ch, key, entry) ==
    IF json THEN ch ELSE CacheSet(ch, key, entry)

\* a delete that leaves the entry in place
CacheDeleteNothing(ch, key) == ch

CacheDelete(ch, key) == [k \in DOMAIN ch \ {key} |-> ch[k]]

CacheClear == [k \in {} |-> 0]

\* the error block without its retry hint
ErrorBlockNoHint(m) == <<"", "  Error: " \o m>>

ErrorBlock(m) == <<"", "  Error: " \o m, "", "  Press 'r' to retry.">>

\* the lines a view renders; the text of a line does not matter to the engine
ViewLines(t, n) == [i \in 1..n |-> t]

\* JSON.stringify(lines, jsonReplacer, 2).split("\n") of an array of strings
JsonOfLines(lines) ==
    IF Len(lines) = 0 THEN <<"[]">>
    ELSE <<"[">>
         \o [i \in 1..Len(lines) |->
               "  \"" \o lines[i] \o (IF i < Len(lines) THEN "\"," ELSE "\"")]
         \o <<"]">>

\* JSON mode: result.data when the view supplied it, else the lines
JsonModeLines(result) ==
    IF result.hasData THEN result.data ELSE JsonOfLines(result.lines)

\* what the last step did: called loadAndRender (lar), which served the cache
\* (hit) or began a load (started); completed the load of generation done,
\* begun for view doneVid, with outcome; left the process through exit
EvNone == [lar |-> "none", hit |-> FALSE, started |-> FALSE,
           done |-> 0, doneVid |-> "", outcome |-> "none", exit |-> "none"]

\* ---------------------------------------------------------------------------
\* The views (external collaborators): what a load returns and what it does
\* to the state its module holds
\* ---------------------------------------------------------------------------

DataLines(t) == <<"{", "  \"" \o t \o "\": 1", "}">>

Result(lines, right, hasData, t) ==
    [lines |-> lines, fixedRight |-> right, hasData |-> hasData,
     data |-> IF hasData THEN DataLines(t) ELSE <<>>]

\* daoView.load: a flat line sequence at every width
DaoResults == {Result(ViewLines("dao", n), <<>>, FALSE, "dao") : n \in LineCounts}

\* feesView.load: { lines, data }
FeesResults == {Result(ViewLines("fees", n), <<>>, TRUE, "fees") : n \in LineCounts}

\* walletView.load: "" + the accounts panel (one row per account) on the left,
\* a second stream on the right when the terminal is wide
WalletLeft(count) == ViewLines("wallet", count + 3)

WalletResults(width, count) ==
    IF width < WIDE_COLS
    THEN {Result(WalletLeft(count), <<>>, TRUE, "wallet")}
    ELSE {Result(WalletLeft(count), ViewLines("wallet", r), TRUE, "wallet")
            : r \in RightCounts}

\* renderLeftPanel: the selected account's line in the left panel
WalletSelectedLine(width, idx, old) == IF width < WIDE_COLS THEN old ELSE 1 + idx

\* proposalsListView.load: "" + panel(top, header, one row per proposal, bottom)
ProposalsLeft(count) ==
    ViewLines("proposals", 3 + (IF count = 0 THEN 0 ELSE count + 1))

ProposalsResults(width, count, empty) ==
    IF empty
    THEN {Result(ViewLines("proposals", 4), <<>>, TRUE, "proposals")}
    ELSE IF width < WIDE_COLS
    THEN {Result(ProposalsLeft(count), <<>>, TRUE, "proposals")}
    ELSE {Result(ProposalsLeft(count), ViewLines("proposals", r), TRUE, "proposals")
            : r \in RightCounts}

ResetIndex(idx, count) == IF idx >= count THEN 0 ELSE idx

ListStale(ts, t) == t - ts > LIST_CACHE_TTL

WalletStale(ts, t) == ts = 0 \/ t - ts > WALLET_CACHE_TTL

\* ---------------------------------------------------------------------------
\* Suspended loads
\* ---------------------------------------------------------------------------

\* status of a load: "await1" the view's first provider call is outstanding,
\* "await2" its second one, "urgent" nothing is outstanding and the load
\* completes before any other event is dispatched. loads lists the suspended
\* calls in the order they were begun; a completed call leaves the list
DropLoad(ls, i) == SubSeq(ls, 1, i - 1) \o SubSeq(ls, i + 1, Len(ls))

\* a counter that is captured but not incremented
NextGenerationStuck(g) == g

\* const gen = ++loadGeneration
NextGeneration(g) == g + 1

Urgent == \E i \in 1..Len(loads) : loads[i].status = "urgent"

\* the synchronous head of View.load, up to its first await
StartStatus(t, listTs, count, time) ==
    IF t = "proposals" /\ ~ListStale(listTs, time)
    THEN (IF count = 0 THEN "urgent" ELSE "await2")
    ELSE "await1"

NewLoad(g, vid, width, listTs, count, time) ==
    [gen |-> g, vid |-> vid, width |-> width,
     status |-> StartStatus(vid.tab, listTs, count, time)]

\* ---------------------------------------------------------------------------
\* Initial state: startTUI has created its closure state, nothing has run yet
\* ---------------------------------------------------------------------------

Boot ==
    /\ tab = "dao"
    /\ scrollOffset = 0
    /\ cursor = 0
    /\ viewStack = <<>>
    /\ jsonMode = FALSE
    /\ cache = CacheClear
    /\ currentLines = <<>>
    /\ currentFixedRight = <<>>
    /\ loading = FALSE
    /\ loadGeneration = 0
    /\ pendingScrollTo = FALSE
    /\ stopKeyListener = FALSE
    /\ removeResizeListener = FALSE
    /\ loads = <<>>
    /\ listCacheTs = 0
    /\ proposalCount = 0
    /\ propCursor = 0
    /\ walletCacheTs = 0
    /\ accountIdx = 0
    /\ accountCount = 1
    /\ selectedLine = 0
    /\ isRawMode = FALSE
    /\ stdinRaw = FALSE
    /\ altScreen = FALSE
    /\ cursorHidden = FALSE
    /\ exitCode = Running
    /\ resizeListener = FALSE
    /\ now = StartTime
    /\ \E sz \in TermSizes : rows = sz[1] /\ cols = sz[2]
    /\ escTimer = NoTimer
    /\ escChunk = 0
    /\ arrived = <<>>
    /\ delivered = <<>>
    /\ ev = EvNone
    /\ written = <<>>
    /\ calls = <<>>

\* no library call pending
NoCall == [fn |-> "none", args |-> <<>>, result |-> <<>>, done |-> FALSE]

Init ==
    /\ Boot
    /\ isTTY = TRUE
    /\ keyListener = FALSE
    /\ call = NoCall
    /\ genLimit = MaxGen

\* the TUI is up: listeners installed, process alive, no load about to
\* complete ahead of every other event
Started == stopKeyListener /\ exitCode = Running

Idle == Started /\ ~Urgent

\* ---------------------------------------------------------------------------
\* loadAndRender, up to its await
\* ---------------------------------------------------------------------------

\* s: the state loadAndRender is called in (the caller's assignments made)
CallState ==
    [tab |-> tab, viewStack |-> viewStack, scrollOffset |-> scrollOffset,
     jsonMode |-> jsonMode, cache |-> cache, listCacheTs |-> listCacheTs,
     propCursor |-> propCursor, rows |-> rows, cols |-> cols]

LarKind(force) == IF force THEN "forced" ELSE "plain"

LoadAndRender(force, s) ==
    LET vid == CurrentViewIdOf(s.viewStack, s.tab)
        key == viewKey(vid)
        vh  == ViewportHeightOf(s.rows)
    IN /\ tab' = s.tab
       /\ viewStack' = s.viewStack
       /\ jsonMode' = s.jsonMode
       /\ cache' = s.cache
       /\ listCacheTs' = s.listCacheTs
       /\ rows' = s.rows
       /\ cols' = s.cols
       /\ IF CacheHit(force, s.jsonMode, s.cache, key, now)
          THEN /\ currentLines' = s.cache[key].lines
               /\ currentFixedRight' = s.cache[key].fixedRight
               /\ scrollOffset' = ClampScroll(s.scrollOffset, s.cache[key].lines,
                                              s.cache[key].fixedRight, vh)
               /\ propCursor' = s.propCursor
               /\ UNCHANGED <<loading, loadGeneration, loads>>
               /\ ev' = [EvNone EXCEPT !.lar = LarKind(force), !.hit = TRUE]
          ELSE /\ loadGeneration < genLimit
               /\ loadGeneration' = NextGeneration(loadGeneration)
               /\ loading' = TRUE
               /\ loads' = Append(loads, NewLoad(NextGeneration(loadGeneration), vid,
                                                s.cols, s.listCacheTs, proposalCount,
                                                now))
               /\ scrollOffset' = s.scrollOffset
               /\ propCursor' =
                    IF vid.tab = "proposals" /\ ~ListStale(s.listCacheTs, now)
                    THEN ResetIndex(s.propCursor, proposalCount)
                    ELSE s.propCursor
               /\ UNCHANGED <<currentLines, currentFixedRight>>
               /\ ev' = [EvNone EXCEPT !.lar = LarKind(force), !.started = TRUE]

\* ---------------------------------------------------------------------------
\* Start-up (the tail of startTUI)
\* ---------------------------------------------------------------------------

\* the two things terminal.ts writes: ESC.enterAlt + ESC.hideCursor, and
\* ESC.showCursor + ESC.leaveAlt
EnterSeq == "\\x1b[?1049h\\x1b[?25l"

LeaveSeq == "\\x1b[?25h\\x1b[?1049l"

\* an enterRawMode that does not look at the flag
EnterRawModeUnguarded ==
    /\ written' = Append(written, EnterSeq)
    /\ altScreen' = TRUE
    /\ cursorHidden' = TRUE
    /\ stdinRaw' = (IF isTTY THEN TRUE ELSE stdinRaw)
    /\ isRawMode' = TRUE

EnterRawMode ==
    IF isRawMode
    THEN UNCHANGED <<isRawMode, stdinRaw, altScreen, cursorHidden, written>>
    ELSE /\ written' = Append(written, EnterSeq)
         /\ altScreen' = TRUE
         /\ cursorHidden' = TRUE
         /\ stdinRaw' = (IF isTTY THEN TRUE ELSE stdinRaw)
         /\ isRawMode' = TRUE

ExitRawMode ==
    IF ~isRawMode
    THEN UNCHANGED <<isRawMode, stdinRaw, altScreen, cursorHidden, written>>
    ELSE /\ written' = Append(written, LeaveSeq)
         /\ cursorHidden' = FALSE
         /\ altScreen' = FALSE
         /\ stdinRaw' = (IF isTTY THEN FALSE ELSE stdinRaw)
         /\ isRawMode' = FALSE

Startup ==
    /\ ~stopKeyListener
    /\ exitCode = Running
    /\ EnterRawMode
    /\ stopKeyListener' = TRUE
    /\ keyListener' = TRUE
    /\ removeResizeListener' = TRUE
    /\ resizeListener' = TRUE
    /\ LoadAndRender(FALSE, CallState)
    /\ UNCHANGED <<cursor, pendingScrollTo, proposalCount, walletCacheTs,
                   accountIdx, accountCount, selectedLine, isTTY, exitCode,
                   now, inputVars, libVars>>

\* ---------------------------------------------------------------------------
\* loadAndRender, after its await
\* ---------------------------------------------------------------------------

CacheEntry(lines, right, t) == [lines |-> lines, fixedRight |-> right, ts |-> t]

Completed(i, outcome) ==
    [EvNone EXCEPT !.done = loads[i].gen, !.doneVid = loads[i].vid.tab,
                   !.outcome = outcome]

\* the lines shown for a result: JSON mode serialises, dropping the right side
ShownLines(result, json) == IF json THEN JsonModeLines(result) ELSE result.lines

\* a JSON mode that keeps the right-hand stream
ShownRightKept(result, json) == result.fixedRight

ShownRight(result, json) == IF json THEN <<>> ELSE result.fixedRight

\* a completion that skips the generation check
StillCurrentAlways(g, current) == TRUE

StillCurrent(g, current) == g = current

ResolvePendingScroll(pending, sel, so, vh) ==
    IF pending THEN EnsureLineVisible(sel + 1, so, vh) ELSE so

\* a stale completion that still clears the loading flag
DiscardClearsLoading(i) ==
    /\ UNCHANGED <<cache, currentLines, currentFixedRight, scrollOffset,
                   pendingScrollTo>>
    /\ loading' = FALSE
    /\ ev' = Completed(i, "discarded")

\* if (gen !== loadGeneration) return
Discard(i) ==
    /\ UNCHANGED <<cache, currentLines, currentFixedRight, loading,
                   scrollOffset, pendingScrollTo>>
    /\ ev' = Completed(i, "discarded")

\* a completion that leaves the loading flag as it found it
SettleKeepsLoading(i, lines, right, sel, outcome) ==
    /\ currentLines' = lines
    /\ currentFixedRight' = right
    /\ loading' = loading
    /\ pendingScrollTo' = FALSE
    /\ scrollOffset' =
         ClampScroll(ResolvePendingScroll(pendingScrollTo, sel, scrollOffset,
                                          viewportHeight),
                     lines, right, viewportHeight)
    /\ ev' = Completed(i, outcome)

\* lines 452-461: clear the flag, resolve the pending scroll, clamp, render
Settle(i, lines, right, sel, outcome) ==
    /\ currentLines' = lines
    /\ currentFixedRight' = right
    /\ loading' = FALSE
    /\ pendingScrollTo' = FALSE
    /\ scrollOffset' =
         ClampScroll(ResolvePendingScroll(pendingScrollTo, sel, scrollOffset,
                                          viewportHeight),
                     lines, right, viewportHeight)
    /\ ev' = Completed(i, outcome)

\* a completion that stores its result under the key of the view shown now
OnResolvedCurrentKey(i, result, sel) ==
    /\ loads' = DropLoad(loads, i)
    /\ IF ~StillCurrent(loads[i].gen, loadGeneration)
       THEN Discard(i)
       ELSE /\ cache' =
                 CacheAfterLoad(jsonMode, cache, viewKey(currentViewId),
                                CacheEntry(result.lines, result.fixedRight, now))
            /\ Settle(i, ShownLines(result, jsonMode),
                      ShownRight(result, jsonMode), sel, "applied")

\* view.load resolved with result; sel is _selectedLine once the view is done
OnResolved(i, result, sel) ==
    /\ loads' = DropLoad(loads, i)
    /\ IF ~StillCurrent(loads[i].gen, loadGeneration)
       THEN Discard(i)
       ELSE /\ cache' =
                 CacheAfterLoad(jsonMode, cache, viewKey(loads[i].vid),
                                CacheEntry(result.lines, result.fixedRight, now))
            /\ Settle(i, ShownLines(result, jsonMode),
                      ShownRight(result, jsonMode), sel, "applied")

\* a rejection that leaves the loading flag set
OnRejectedKeepsLoading(i, m) ==
    /\ loads' = DropLoad(loads, i)
    /\ IF ~StillCurrent(loads[i].gen, loadGeneration)
       THEN Discard(i)
       ELSE /\ cache' = cache
            /\ SettleKeepsLoading(i, ErrorBlock(m), <<>>, selectedLine, "error")

\* view.load rejected with an error whose message is m
OnRejected(i, m) ==
    /\ loads' = DropLoad(loads, i)
    /\ IF ~StillCurrent(loads[i].gen, loadGeneration)
       THEN Discard(i)
       ELSE /\ cache' = cache
            /\ Settle(i, ErrorBlock(m), <<>>, selectedLine, "error")

\* ---------------------------------------------------------------------------
\* Progress of the views' loads
\* ---------------------------------------------------------------------------

CanStep(i) ==
    /\ Started
    /\ i \in 1..Len(loads)
    /\ Urgent => loads[i].status = "urgent"

frameVars == <<tab, cursor, viewStack, jsonMode, loadGeneration, termVars,
               envVars, inputVars, libVars>>

\* the view's first provider call returned and the view goes on to a second
Advance(i) ==
    /\ CanStep(i)
    /\ loads[i].status = "await1"
    /\ \/ /\ loads[i].vid.tab = "wallet"
          /\ loads' = [loads EXCEPT ![i].status =
                         IF WalletStale(walletCacheTs, now) THEN "await2"
                                                            ELSE "urgent"]
          /\ UNCHANGED viewVars
       \/ /\ loads[i].vid.tab = "proposals"
          /\ \E c \in ProposalCounts :
               /\ proposalCount' = c
               /\ propCursor' = ResetIndex(propCursor, c)
               /\ loads' = [loads EXCEPT ![i].status =
                              IF c = 0 THEN "urgent" ELSE "await2"]
          /\ listCacheTs' = now
          /\ UNCHANGED <<walletCacheTs, accountIdx, accountCount, selectedLine>>
    /\ ev' = EvNone
    /\ UNCHANGED <<frameVars, scrollOffset, cache, currentLines,
                   currentFixedRight, loading, pendingScrollTo>>

ResolveFlat(i) ==
    /\ loads[i].status = "await1"
    /\ \/ loads[i].vid.tab = "dao" /\ \E r \in DaoResults : OnResolved(i, r, selectedLine)
       \/ loads[i].vid.tab = "fees" /\ \E r \in FeesResults : OnResolved(i, r, selectedLine)
    /\ UNCHANGED viewVars

ResolveWallet(i) ==
    /\ loads[i].vid.tab = "wallet"
    /\ loads[i].status \in {"await2", "urgent"}
    /\ \E a \in (IF loads[i].status = "await2" THEN AccountCounts ELSE {accountCount}) :
         LET idx == ResetIndex(accountIdx, a)
             sel == WalletSelectedLine(loads[i].width, idx, selectedLine)
         IN /\ accountCount' = a
            /\ accountIdx' = idx
            /\ selectedLine' = sel
            /\ walletCacheTs' = (IF loads[i].status = "await2" THEN now
                                                               ELSE walletCacheTs)
            /\ \E r \in WalletResults(loads[i].width, a) : OnResolved(i, r, sel)
    /\ UNCHANGED <<listCacheTs, proposalCount, propCursor>>

ResolveProposals(i) ==
    /\ loads[i].vid.tab = "proposals"
    /\ loads[i].status \in {"await2", "urgent"}
    /\ \E r \in ProposalsResults(loads[i].width, proposalCount,
                                 loads[i].status = "urgent") :
         OnResolved(i, r, selectedLine)
    /\ UNCHANGED viewVars

Resolve(i) ==
    /\ CanStep(i)
    /\ ResolveFlat(i) \/ ResolveWallet(i) \/ ResolveProposals(i)
    /\ UNCHANGED frameVars

Reject(i, m) ==
    /\ CanStep(i)
    /\ \/ loads[i].status = "await1"
       \/ loads[i].status = "await2" /\ loads[i].vid.tab = "wallet"
    /\ OnRejected(i, m)
    /\ UNCHANGED <<frameVars, viewVars>>

\* ---------------------------------------------------------------------------
\* handleKey
\* ---------------------------------------------------------------------------

\* what a handler that ends in loadAndRender leaves alone unless it says so
keepOnLoad == <<proposalCount, walletCacheTs, accountCount, selectedLine,
                termVars, now, inputVars, libVars>>

\* what a scroll key leaves alone
keepOnScroll == <<tab, cursor, viewStack, jsonMode, tuiVars, viewVars,
                  termVars, envVars, inputVars, libVars>>

\* a step to the next tab that stops at the last one
NextTabNoWrap(t) == TABS[Min(IndexOfTab(t) + 1, Len(TABS))]

NextTab(t) == TABS[((IndexOfTab(t) - 1 + 1) % Len(TABS)) + 1]

PrevTab(t) == TABS[((IndexOfTab(t) - 1 - 1 + Len(TABS)) % Len(TABS)) + 1]

SwitchTab(t) ==
    /\ cursor' = 0
    /\ LoadAndRender(FALSE, [CallState EXCEPT !.viewStack = <<>>, !.tab = t,
                                              !.scrollOffset = 0])
    /\ UNCHANGED <<pendingScrollTo, accountIdx, keepOnLoad>>

TabNext ==
    /\ Idle
    /\ SwitchTab(NextTab(tab))

TabPrev ==
    /\ Idle
    /\ SwitchTab(PrevTab(tab))

CycleItem(dir, fallback) ==
    IF tab = "wallet"
    THEN /\ accountIdx' = CycleWalletAccount(accountIdx, dir, accountCount)
         /\ pendingScrollTo' = TRUE
         /\ LoadAndRender(FALSE, [CallState EXCEPT
                                    !.cache = CacheDelete(cache, "wallet")])
         /\ UNCHANGED <<cursor, keepOnLoad>>
    ELSE IF tab = "proposals" /\ Len(viewStack) = 0
    THEN LET c == CycleProposalCursor(propCursor, dir, proposalCount)
         IN /\ LoadAndRender(FALSE, [CallState EXCEPT
                  !.propCursor = c,
                  !.cache = CacheDelete(cache, "proposals"),
                  !.scrollOffset = EnsureLineVisible(ProposalCursorLine(c),
                                                     scrollOffset, viewportHeight)])
            /\ UNCHANGED <<cursor, pendingScrollTo, accountIdx, keepOnLoad>>
    ELSE SwitchTab(fallback)

SubNext ==
    /\ Idle
    /\ CycleItem(1, NextTab(tab))

SubPrev ==
    /\ Idle
    /\ CycleItem(-1, PrevTab(tab))

\* a page-down that does not stop at the last page
ScrollKeyUnclamped(type, so, lines, right, vh) ==
    CASE type = "up" -> (IF so > 0 THEN so - 1 ELSE so)
      [] type = "down" ->
           (IF so < MaxScroll(lines, right, vh) THEN so + 1 ELSE so)
      [] type = "page-up" -> Max(0, so - PAGE_STEP)
      [] type = "page-down" -> so + PAGE_STEP
      [] type = "top" -> 0
      [] type = "bottom" -> MaxScroll(lines, right, vh)

\* state.scrollOffset after a scroll key
ScrollKey(type, so, lines, right, vh) ==
    CASE type = "up" -> (IF so > 0 THEN so - 1 ELSE so)
      [] type = "down" ->
           (IF so < MaxScroll(lines, right, vh) THEN so + 1 ELSE so)
      [] type = "page-up" -> Max(0, so - PAGE_STEP)
      [] type = "page-down" -> Min(MaxScroll(lines, right, vh), so + PAGE_STEP)
      [] type = "top" -> 0
      [] type = "bottom" -> MaxScroll(lines, right, vh)

Scroll(type) ==
    /\ Idle
    /\ scrollOffset' = ScrollKey(type, scrollOffset, currentLines,
                                 currentFixedRight, viewportHeight)
    /\ ev' = EvNone
    /\ UNCHANGED keepOnScroll

Up == Scroll("up")

Down == Scroll("down")

PageUp == Scroll("page-up")

PageDown == Scroll("page-down")

\* a jump to the top that reloads the view
TopReloads ==
    /\ Idle
    /\ LoadAndRender(FALSE, [CallState EXCEPT !.scrollOffset = 0])
    /\ UNCHANGED <<cursor, pendingScrollTo, accountIdx, keepOnLoad>>

Top == Scroll("top")

Bottom == Scroll("bottom")

\* "enter" has no case in handleKey
Enter ==
    /\ Idle
    /\ ev' = EvNone
    /\ UNCHANGED <<scrollOffset, keepOnScroll>>

Back ==
    /\ Idle
    /\ IF Len(viewStack) > 0
       THEN /\ cursor' = 0
            /\ LoadAndRender(FALSE, [CallState EXCEPT
                   !.viewStack = SubSeq(viewStack, 1, Len(viewStack) - 1),
                   !.scrollOffset = 0])
            /\ UNCHANGED <<pendingScrollTo, accountIdx, keepOnLoad>>
       ELSE /\ ev' = EvNone
            /\ UNCHANGED <<scrollOffset, keepOnScroll>>

Refresh ==
    /\ Idle
    /\ walletCacheTs' = (IF tab = "wallet" THEN 0 ELSE walletCacheTs)
    /\ LoadAndRender(TRUE, [CallState EXCEPT
           !.cache = CacheDelete(cache, viewKey(currentViewId)),
           !.listCacheTs = IF tab = "proposals" THEN 0 ELSE listCacheTs])
    /\ UNCHANGED <<cursor, pendingScrollTo, accountIdx, proposalCount,
                   accountCount, selectedLine, termVars, now, inputVars, libVars>>

\* a toggle that flips the mode and keeps the content on screen
JsonWithoutReload ==
    /\ Idle
    /\ jsonMode' = ~jsonMode
    /\ scrollOffset' = 0
    /\ ev' = EvNone
    /\ UNCHANGED <<tab, cursor, viewStack, tuiVars, viewVars, termVars, envVars,
                   inputVars, libVars>>

Json ==
    /\ Idle
    /\ LoadAndRender(FALSE, [CallState EXCEPT !.jsonMode = ~jsonMode,
                                              !.scrollOffset = 0])
    /\ UNCHANGED <<cursor, pendingScrollTo, accountIdx, keepOnLoad>>

\* a navigate that leaves the scroll offset where it was
NavigateKeepsScroll(target) ==
    /\ Idle
    /\ loadGeneration > 0
    /\ Len(viewStack) < MaxStack
    /\ cursor' = 0
    /\ LoadAndRender(FALSE, [CallState EXCEPT
           !.viewStack = Append(viewStack, ViewId(target))])
    /\ UNCHANGED <<pendingScrollTo, accountIdx, keepOnLoad>>

\* ctx.navigate, called by a view that was handed a context
Navigate(target) ==
    /\ Idle
    /\ loadGeneration > 0
    /\ Len(viewStack) < MaxStack
    /\ cursor' = 0
    /\ LoadAndRender(FALSE, [CallState EXCEPT
           !.viewStack = Append(viewStack, ViewId(target)),
           !.scrollOffset = 0])
    /\ UNCHANGED <<pendingScrollTo, accountIdx, keepOnLoad>>

\* a resize callback that reloads without emptying the cache
ResizeKeepsCache(r, c) ==
    /\ Idle
    /\ resizeListener
    /\ <<r, c>> \in TermSizes
    /\ <<r, c>> # <<rows, cols>>
    /\ LoadAndRender(FALSE, [CallState EXCEPT !.rows = r, !.cols = c])
    /\ UNCHANGED <<cursor, pendingScrollTo, accountIdx, keepOnLoad>>

\* a resize callback that empties the cache and begins no load
ResizeWithoutReload(r, c) ==
    /\ Idle
    /\ resizeListener
    /\ <<r, c>> \in TermSizes
    /\ <<r, c>> # <<rows, cols>>
    /\ rows' = r
    /\ cols' = c
    /\ cache' = CacheClear
    /\ ev' = EvNone
    /\ UNCHANGED <<tab, viewStack, jsonMode, listCacheTs, currentLines,
                   currentFixedRight, scrollOffset, propCursor, loading,
                   loadGeneration, loads, cursor, pendingScrollTo, accountIdx,
                   keepOnLoad>>

\* the onResize callback installed by startTUI
Resize(r, c) ==
    /\ Idle
    /\ resizeListener
    /\ <<r, c>> \in TermSizes
    /\ <<r, c>> # <<rows, cols>>
    /\ LoadAndRender(FALSE, [CallState EXCEPT !.cache = CacheClear,
                                              !.rows = r, !.cols = c])
    /\ UNCHANGED <<cursor, pendingScrollTo, accountIdx, keepOnLoad>>

\* Date.now() moves on between events
AdvanceClock(d) ==
    /\ Idle
    /\ now + d <= StartTime + MaxElapsed
    /\ now' = now + d
    /\ ev' = EvNone
    /\ UNCHANGED <<appVars, tuiVars, viewVars, termVars, rows, cols, inputVars, libVars>>

\* ---------------------------------------------------------------------------
\* Leaving: cleanup() followed by process.exit(code)
\* ---------------------------------------------------------------------------

\* a cleanup function that removes the listener and leaves the timer armed
StopKeyListenerKeepsTimer ==
    /\ keyListener' = FALSE
    /\ escTimer' = escTimer

StopKeyListener ==
    /\ keyListener' = FALSE
    /\ escTimer' = NoTimer

\* a cleanup that removes the listeners but leaves the terminal as it is
CleanupWithoutTerminal ==
    /\ IF stopKeyListener THEN StopKeyListener
                          ELSE UNCHANGED <<keyListener, escTimer>>
    /\ resizeListener' = (IF removeResizeListener THEN FALSE ELSE resizeListener)
    /\ UNCHANGED <<isRawMode, stdinRaw, altScreen, cursorHidden, written>>

Cleanup ==
    /\ IF stopKeyListener THEN StopKeyListener
                          ELSE UNCHANGED <<keyListener, escTimer>>
    /\ resizeListener' = (IF removeResizeListener THEN FALSE ELSE resizeListener)
    /\ ExitRawMode

\* process.exit: the process's memory (the closure state of startTUI and the
\* views' module state) ceases to exist; the terminal keeps its state
Forgotten ==
    /\ tab' = "dao"
    /\ scrollOffset' = 0
    /\ cursor' = 0
    /\ viewStack' = <<>>
    /\ jsonMode' = FALSE
    /\ cache' = CacheClear
    /\ currentLines' = <<>>
    /\ currentFixedRight' = <<>>
    /\ loading' = FALSE
    /\ loadGeneration' = 0
    /\ pendingScrollTo' = FALSE
    /\ loads' = <<>>
    /\ listCacheTs' = 0
    /\ proposalCount' = 0
    /\ propCursor' = 0
    /\ walletCacheTs' = 0
    /\ accountIdx' = 0
    /\ accountCount' = 1
    /\ selectedLine' = 0

Leave(path, code) ==
    /\ Idle
    /\ Cleanup
    /\ exitCode' = code
    /\ Forgotten
    /\ ev' = [EvNone EXCEPT !.exit = path]
    /\ UNCHANGED <<envVars, isTTY, stopKeyListener, removeResizeListener,
                   escChunk, arrived, delivered, libVars>>

Quit == Leave("quit", 0)

SigInt == Leave("SIGINT", 0)

SigTerm == Leave("SIGTERM", 0)

UncaughtException == Leave("uncaughtException", 1)

Next ==
    \/ Startup
    \/ \E i \in 1..MaxGen : Advance(i)
    \/ \E i \in 1..MaxGen : Resolve(i)
    \/ \E i \in 1..MaxGen, m \in Messages : Reject(i, m)
    \/ TabNext
    \/ TabPrev
    \/ SubNext
    \/ SubPrev
    \/ Up
    \/ Down
    \/ PageUp
    \/ PageDown
    \/ Top
    \/ Bottom
    \/ Enter
    \/ Back
    \/ Refresh
    \/ Json
    \/ \E t \in NavTargets : Navigate(t)
    \/ \E sz \in TermSizes : Resize(sz[1], sz[2])
    \/ \E d \in ClockSteps : AdvanceClock(d)
    \/ Quit
    \/ SigInt
    \/ SigTerm
    \/ UncaughtException

Spec == Init /\ [][Next]_vars

\* ---------------------------------------------------------------------------
\* The dashboard from the wallet tab on. The wallet is two tabs away from the
\* first one, so the state below is the earliest in which it is the active
\* tab: start-up, tab-prev twice (dao, proposals, wallet), and the loads of
\* the two tabs left behind failed and were discarded. The run goes on from
\* there for MaxGenWallet - 3 more loads.
\* ---------------------------------------------------------------------------

MaxGenWallet == 5

OnWalletTab ==
    /\ tab = "wallet"
    /\ scrollOffset = 0
    /\ cursor = 0
    /\ viewStack = <<>>
    /\ jsonMode = FALSE
    /\ cache = CacheClear
    /\ currentLines = <<>>
    /\ currentFixedRight = <<>>
    /\ loading = TRUE
    /\ loadGeneration = 3
    /\ pendingScrollTo = FALSE
    /\ stopKeyListener = TRUE
    /\ removeResizeListener = TRUE
    /\ loads = <<NewLoad(3, ViewId("wallet"), cols, 0, 0, StartTime)>>
    /\ listCacheTs = 0
    /\ proposalCount = 0
    /\ propCursor = 0
    /\ walletCacheTs = 0
    /\ accountIdx = 0
    /\ accountCount = 1
    /\ selectedLine = 0
    /\ isRawMode = TRUE
    /\ isTTY = TRUE
    /\ stdinRaw = TRUE
    /\ altScreen = TRUE
    /\ cursorHidden = TRUE
    /\ exitCode = Running
    /\ keyListener = TRUE
    /\ resizeListener = TRUE
    /\ now = StartTime
    /\ <<rows, cols>> \in TermSizes
    /\ escTimer = NoTimer
    /\ escChunk = 0
    /\ arrived = <<>>
    /\ delivered = <<>>
    /\ ev = [EvNone EXCEPT !.done = 2, !.doneVid = "proposals",
                           !.outcome = "discarded"]
    /\ written = <<EnterSeq>>
    /\ calls = <<>>
    /\ call = NoCall

InitWallet ==
    /\ \E sz \in TermSizes : rows = sz[1] /\ cols = sz[2]
    /\ OnWalletTab
    /\ genLimit = MaxGenWallet

NextWallet ==
    \/ \E i \in 1..MaxGen : Advance(i)
    \/ \E i \in 1..MaxGen : Resolve(i)
    \/ \E i \in 1..MaxGen, m \in Messages : Reject(i, m)
    \/ TabNext
    \/ TabPrev
    \/ SubNext
    \/ SubPrev
    \/ Up
    \/ Down
    \/ PageUp
    \/ PageDown
    \/ Top
    \/ Bottom
    \/ Enter
    \/ Back
    \/ Refresh
    \/ Json
    \/ \E t \in NavTargets : Navigate(t)
    \/ \E sz \in TermSizes : Resize(sz[1], sz[2])
    \/ \E d \in ClockSteps : AdvanceClock(d)
    \/ Quit
    \/ SigInt
    \/ SigTerm
    \/ UncaughtException

SpecWallet == InitWallet /\ [][NextWallet]_vars

\* some suspended View.load moves on: a provider call returns or fails
Progress ==
    \E i \in 1..MaxGen :
        Advance(i) \/ Resolve(i) \/ \E m \in Messages : Reject(i, m)

\* every View.load that was invoked eventually resolves or rejects; the bound
\* on the loads begun makes the events that begin loads stop
SpecLive == Spec /\ WF_vars(Progress)

\* ---------------------------------------------------------------------------
\* The key listener (input.ts). A chunk is the byte sequence of one "data"
\* event; handler is the callback startKeyListener was given, here one that
\* records what it is handed.
\* ---------------------------------------------------------------------------

ESC == 27

CtrlC == <<3>>

LoneEsc == <<ESC>>

ArrowUp == <<ESC, 91, 65>>

ArrowDown == <<ESC, 91, 66>>

ArrowRight == <<ESC, 91, 67>>

PageUpSeq == <<ESC, 91, 53, 126>>

PageDownSeq == <<ESC, 91, 54, 126>>

ShiftTab == <<ESC, 91, 90>>

NoAction == "none"

mapEscapeSequence(seq) ==
    CASE seq = ArrowUp -> "up"
      [] seq = ArrowDown -> "down"
      [] seq = PageUpSeq -> "page-up"
      [] seq = PageDownSeq -> "page-down"
      [] seq = ShiftTab -> "tab-prev"
      [] OTHER -> NoAction

mapCharKey(seq) ==
    CASE seq = <<113>> -> "quit"
      [] seq = <<9>> -> "tab-next"
      [] seq = <<91>> -> "sub-prev"
      [] seq = <<93>> -> "sub-next"
      [] seq = <<107>> -> "up"
      [] seq = <<106>> -> "json"
      [] seq = <<103>> -> "top"
      [] seq = <<71>> -> "bottom"
      [] seq = <<13>> -> "enter"
      [] seq = <<127>> -> "back"
      [] seq = <<114>> -> "refresh"
      [] OTHER -> NoAction

\* the chunks a terminal sends: every key of the two tables, an escape
\* sequence and a character that are in neither
Chunks ==
    {CtrlC, LoneEsc, ArrowUp, ArrowDown, ArrowRight, PageUpSeq, PageDownSeq,
     ShiftTab, <<113>>, <<9>>, <<91>>, <<93>>, <<107>>, <<106>>, <<103>>,
     <<71>>, <<13>>, <<127>>, <<114>>, <<122>>}

StartsWithEsc(seq) == Len(seq) > 0 /\ seq[1] = ESC

\* a timer armed with no delay
ArmEscTimerNoDelay(t) == t

\* setTimeout(cb, 50): the time the callback becomes due
ArmEscTimer(t) == t + ESC_DELAY

\* handler(action) for the action decoded from chunk n, which arrived at time at
Handed(type, n, at) ==
    delivered' = Append(delivered, [type |-> type, chunk |-> n, wait |-> now - at])

otherVars == <<appVars, tuiVars, viewVars, isRawMode, isTTY, stdinRaw, altScreen,
               cursorHidden, exitCode, stopKeyListener, removeResizeListener,
               resizeListener, rows, cols, ev, written, libVars>>

\* handleKey is the handler: on "quit" it runs cleanup(), which calls the
\* function startKeyListener returned, and the process exits
AfterHanded(type) ==
    IF type = "quit"
    THEN StopKeyListener /\ escChunk' = 0
    ELSE UNCHANGED <<keyListener, escTimer, escChunk>>

InitInput ==
    /\ Boot
    /\ isTTY = TRUE
    /\ keyListener = TRUE
    /\ call = NoCall
    /\ genLimit = MaxGen

\* an onData that leaves a pending timer alone when a known sequence arrives
OnDataKeepsTimer(buf) ==
    /\ keyListener
    /\ Len(arrived) < MaxChunks
    /\ arrived' = Append(arrived, [chunk |-> buf, at |-> now])
    /\ LET n == Len(arrived) + 1
       IN IF buf = CtrlC
          THEN Handed("quit", n, now) /\ AfterHanded("quit")
          ELSE IF StartsWithEsc(buf)
          THEN IF mapEscapeSequence(buf) # NoAction
               THEN /\ Handed(mapEscapeSequence(buf), n, now)
                    /\ UNCHANGED <<keyListener, escTimer, escChunk>>
               ELSE IF buf = LoneEsc
               THEN /\ escTimer' = ArmEscTimer(now)
                    /\ escChunk' = n
                    /\ UNCHANGED <<delivered, keyListener>>
               ELSE /\ escTimer' = NoTimer
                    /\ escChunk' = 0
                    /\ UNCHANGED <<delivered, keyListener>>
          ELSE IF mapCharKey(buf) # NoAction
               THEN Handed(mapCharKey(buf), n, now) /\ AfterHanded(mapCharKey(buf))
               ELSE UNCHANGED <<delivered, keyListener, escTimer, escChunk>>
    /\ UNCHANGED <<otherVars, now>>

OnData(buf) ==
    /\ keyListener
    /\ Len(arrived) < MaxChunks
    /\ arrived' = Append(arrived, [chunk |-> buf, at |-> now])
    /\ LET n == Len(arrived) + 1
       IN IF buf = CtrlC
          THEN Handed("quit", n, now) /\ AfterHanded("quit")
          ELSE IF StartsWithEsc(buf)
          THEN IF mapEscapeSequence(buf) # NoAction
               THEN /\ escTimer' = NoTimer
                    /\ escChunk' = 0
                    /\ Handed(mapEscapeSequence(buf), n, now)
                    /\ UNCHANGED keyListener
               ELSE IF buf = LoneEsc
               THEN /\ escTimer' = ArmEscTimer(now)
                    /\ escChunk' = n
                    /\ UNCHANGED <<delivered, keyListener>>
               ELSE /\ escTimer' = NoTimer
                    /\ escChunk' = 0
                    /\ UNCHANGED <<delivered, keyListener>>
          ELSE IF mapCharKey(buf) # NoAction
               THEN Handed(mapCharKey(buf), n, now) /\ AfterHanded(mapCharKey(buf))
               ELSE UNCHANGED <<delivered, keyListener, escTimer, escChunk>>
    /\ UNCHANGED <<otherVars, now>>

\* the escape timer's callback
EscTimeout ==
    /\ escTimer # NoTimer
    /\ now >= escTimer
    /\ escTimer' = NoTimer
    /\ escChunk' = 0
    /\ Handed("back", escChunk, arrived[escChunk].at)
    /\ UNCHANGED <<otherVars, keyListener, now, arrived>>

\* time passes; a due timer runs before the clock moves past it
TimerTick(d) ==
    /\ now + d <= StartTime + MaxWait
    /\ escTimer # NoTimer => now + d <= escTimer
    /\ now' = now + d
    /\ UNCHANGED <<otherVars, keyListener, escTimer, escChunk, arrived, delivered>>

\* the function startKeyListener returned
StopListening ==
    /\ keyListener
    /\ StopKeyListener
    /\ escChunk' = 0
    /\ UNCHANGED <<otherVars, now, arrived, delivered>>

NextInput ==
    \/ \E buf \in Chunks : OnData(buf)
    \/ EscTimeout
    \/ \E d \in TimerSteps : TimerTick(d)
    \/ StopListening

SpecInput == InitInput /\ [][NextInput]_vars

\* ---------------------------------------------------------------------------
\* Properties of the view state machine (checked under Spec)
\* ---------------------------------------------------------------------------

\* C1: of two loads begun one after the other, the first still unresolved
\* when the second begins, only the later one can be applied: a completion
\* that replaces the displayed content (with a result or with the error block)
\* or writes the cache belongs to the load begun last, so the earlier load is
\* discarded whichever of the two completes first.
C1_OnlyLatestLoadApplied ==
    ev.outcome \in {"applied", "error"} => ev.done = loadGeneration

\* the first of two loads of the view on display completed while the second
\* was still outstanding, and was discarded
C1_Witness ==
    /\ ev.outcome = "discarded"
    /\ ev.doneVid = viewKey(currentViewId)
    /\ ev.done < loadGeneration
    /\ \E j \in 1..Len(loads) :
         loads[j].vid = currentViewId /\ loads[j].gen = loadGeneration

\* C2: whenever a load completion replaces the displayed content, the view
\* the load was begun for is the current view.
C2_AppliedLoadIsCurrentView ==
    ev.outcome \in {"applied", "error"} => ev.doneVid = viewKey(currentViewId)

\* C3: a loadAndRender call without forceRefresh and outside JSON mode shows
\* the cache entry of the current view, beginning no load, when the entry is
\* less than 30,000 ms old; it begins a load when the entry is 30,000 ms old
\* or older, or when there is none.
C3_CacheServedWhileFresh ==
    (ev.lar = "plain" /\ ~jsonMode) =>
        LET key == viewKey(currentViewId)
        IN IF key \in DOMAIN cache /\ now - cache[key].ts < 30000
           THEN /\ ev.hit
                /\ ~ev.started
                /\ currentLines = cache[key].lines
                /\ currentFixedRight = cache[key].fixedRight
           ELSE /\ ev.started
                /\ ~ev.hit
                /\ loading
                /\ \E i \in 1..Len(loads) :
                     loads[i].gen = loadGeneration /\ loads[i].vid = currentViewId

\* an entry 29,999 ms old was served
C3_Witness ==
    /\ ev.lar = "plain"
    /\ ev.hit
    /\ ~jsonMode
    /\ viewKey(currentViewId) \in DOMAIN cache
    /\ now - cache[viewKey(currentViewId)].ts = 29999

\* C4: once the dashboard is up, every state is the state of its last render,
\* and in it 0 <= scrollOffset <= max(0, L - (H - 3)), L the longer of the
\* two streams and H the terminal height.
C4_ScrollWithinBounds ==
    Started =>
        /\ 0 <= scrollOffset
        /\ scrollOffset <= Max(0, Max(Len(currentLines), Len(currentFixedRight))
                                    - (rows - 3))

\* C5: when the load of the current generation rejects with message m, the
\* displayed content becomes the four-line error block for m, there is no
\* secondary stream, the loading flag is cleared, the cache is unchanged and
\* the process goes on running.
C5_RejectionShowsErrorBlock ==
    [][\A i \in 1..Len(loads), m \in Messages :
         (Reject(i, m) /\ loads[i].gen = loadGeneration) =>
             /\ currentLines' = <<"", "  Error: " \o m, "", "  Press 'r' to retry.">>
             /\ currentFixedRight' = <<>>
             /\ ~loading'
             /\ cache' = cache
             /\ exitCode' = Running]_vars

\* the current load rejected with "boom" while the cache held an entry
C5_Witness ==
    /\ ev.outcome = "error"
    /\ ev.done = loadGeneration
    /\ currentLines = <<"", "  Error: boom", "", "  Press 'r' to retry.">>
    /\ currentFixedRight = <<>>
    /\ ~loading
    /\ cache # CacheClear

\* C6: while JSON mode is active no loadAndRender call serves a cache entry
\* and no load completion changes the cache.
C6_JsonModeBypassesCache ==
    [][jsonMode' => /\ ~ev'.hit
                    /\ (ev'.outcome # "none" => cache' = cache)]_vars

\* in JSON mode a load was applied and the cache holds nothing for its view
C6_Witness ==
    /\ jsonMode
    /\ ev.outcome = "applied"
    /\ ev.doneVid \notin DOMAIN cache

\* C7: the generation counter never decreases; it grows by exactly one in a
\* step that begins a load and is unchanged in every other step; at most one
\* outstanding load holds the current generation.
C7_GenerationCounter ==
    [][exitCode' = Running =>
         /\ loadGeneration' >= loadGeneration
         /\ loadGeneration' =
              loadGeneration + (IF Len(loads') = Len(loads) + 1 THEN 1 ELSE 0)
         /\ Cardinality({i \in 1..Len(loads') :
                           loads'[i].gen = loadGeneration'}) <= 1]_vars

\* two loads are outstanding and exactly one of them is the current one
C7_Witness ==
    /\ Len(loads) >= 2
    /\ Cardinality({i \in 1..Len(loads) : loads[i].gen = loadGeneration}) = 1
    /\ \E i \in 1..Len(loads) : loads[i].gen < loadGeneration

\* C10: after the process has exited, by the quit key, SIGINT, SIGTERM or an
\* uncaught exception, both listeners are removed, the cursor is shown, the
\* alternate screen is left and raw mode is off; the exit status is non-zero
\* for the uncaught exception and zero for the other three paths.
C10_TerminalRestoredOnExit ==
    exitCode # Running =>
        /\ ~keyListener
        /\ ~resizeListener
        /\ ~cursorHidden
        /\ ~altScreen
        /\ ~isRawMode
        /\ ~stdinRaw
        /\ ev.exit \in {"quit", "SIGINT", "SIGTERM", "uncaughtException"}
        /\ ev.exit = "uncaughtException" => exitCode # 0
        /\ ev.exit \in {"quit", "SIGINT", "SIGTERM"} => exitCode = 0

\* the process left through the uncaught-exception handler with status 1
C10_Witness ==
    /\ exitCode = 1
    /\ ev.exit = "uncaughtException"
    /\ ~isRawMode
    /\ ~keyListener

\* ---------------------------------------------------------------------------
\* Properties of the key listener (checked under SpecInput)
\* ---------------------------------------------------------------------------

\* the actions the handler was given for chunk i
DeliveredFor(i) == {k \in 1..Len(delivered) : delivered[k].chunk = i}

\* C8: the handler is given the actions in the order their chunks arrived.
C8_ArrivalOrder ==
    \A i, j \in 1..Len(delivered) :
        i < j => delivered[i].chunk <= delivered[j].chunk

\* no input arrived within 50 ms of chunk i, and the 50 ms have passed with
\* the listener still installed
QuietAfter(i) ==
    /\ \A j \in (i + 1)..Len(arrived) : arrived[j].at > arrived[i].at + 50
    /\ now >= arrived[i].at + 50
    /\ escChunk # i
    /\ keyListener

\* C9: a lone escape byte yields no action before 50 ms have passed and never
\* more than one; when no further input arrives within the 50 ms it yields
\* exactly one "back".
C9_LoneEscape ==
    \A i \in 1..Len(arrived) :
        arrived[i].chunk = LoneEsc =>
            /\ \A k \in DeliveredFor(i) :
                 delivered[k].type = "back" /\ delivered[k].wait >= 50
            /\ Cardinality(DeliveredFor(i)) <= 1
            /\ QuietAfter(i) => Cardinality(DeliveredFor(i)) = 1

\* a lone escape byte was the last input and its "back" came 50 ms later
C9_Witness ==
    /\ Len(arrived) > 0
    /\ arrived[Len(arrived)].chunk = LoneEsc
    /\ \E k \in DeliveredFor(Len(arrived)) :
         delivered[k].type = "back" /\ delivered[k].wait = 50

\* ---------------------------------------------------------------------------
\* Further properties of the view state machine
\* ---------------------------------------------------------------------------

\* C11: when every invoked load completes and no further load is begun, the
\* loading flag eventually becomes false and stays false; as long as the load
\* of the latest generation is unresolved the flag is true; and the displayed
\* content is only ever replaced by a cache hit or by the completion of the
\* load of the latest generation, which is always applied.
C11_LoadingSettles ==
    /\ <>[](~loading)
    /\ []((Started /\ \E i \in 1..Len(loads) : loads[i].gen = loadGeneration)
            => loading)
    /\ [][exitCode' = Running =>
            /\ (currentLines' # currentLines \/ currentFixedRight' # currentFixedRight)
                 => \/ ev'.hit
                    \/ ev'.outcome \in {"applied", "error"} /\ ev'.done = loadGeneration
            /\ (ev'.outcome # "none" /\ ev'.done = loadGeneration)
                 => ev'.outcome \in {"applied", "error"} /\ ~loading']_vars

\* two loads were begun, the earlier was discarded, the later one has been
\* applied and nothing is outstanding
C11_Witness ==
    /\ Started
    /\ loads = <<>>
    /\ ~loading
    /\ loadGeneration >= 2
    /\ ev.outcome = "discarded"

\* the step began a View load for the current view: the generation grew by
\* one, the flag is set and the new call is the last of the suspended ones
BeganLoad ==
    /\ ev'.started
    /\ ~ev'.hit
    /\ loadGeneration' = loadGeneration + 1
    /\ loading'
    /\ Len(loads') = Len(loads) + 1
    /\ loads'[Len(loads')].gen = loadGeneration'
    /\ loads'[Len(loads')].vid = CurrentViewIdOf(viewStack', tab')

\* C12: a refresh removes the cache entry of the current view, leaves the
\* entries of the other views as they were, invalidates the wallet's or the
\* proposals' own cache when that is the current view, and begins a load
\* (generation + 1) whatever the age of the removed entry.
C12_RefreshForcesReload ==
    [][ev'.lar = "forced" =>
          LET key == viewKey(currentViewId)
          IN /\ currentViewId' = currentViewId
             /\ key \notin DOMAIN cache'
             /\ DOMAIN cache' = DOMAIN cache \ {key}
             /\ \A k \in DOMAIN cache' : cache'[k] = cache[k]
             /\ key = "wallet" => walletCacheTs' = 0
             /\ key = "proposals" => listCacheTs' = 0
             /\ BeganLoad]_vars

\* a refresh has just begun a load at the very time the views' entries were
\* written; the entries of the other views are still there
C12_Witness ==
    /\ ev.lar = "forced"
    /\ ev.started
    /\ viewKey(currentViewId) \notin DOMAIN cache
    /\ cache # CacheClear
    /\ \A k \in DOMAIN cache : now - cache[k].ts < 30000

\* C13: a resize empties the cache and begins a load of the current view
\* (generation + 1), in JSON mode and outside it, with or without a load in
\* flight.
C13_ResizeClearsCacheAndReloads ==
    [][(rows' # rows \/ cols' # cols) =>
          /\ cache' = CacheClear
          /\ currentViewId' = currentViewId
          /\ jsonMode' = jsonMode
          /\ BeganLoad]_vars

\* a resize in JSON mode while an earlier load, begun at the old width, was
\* still in flight
C13_Witness ==
    /\ jsonMode
    /\ Len(loads) >= 2
    /\ loads[Len(loads)].width = cols
    /\ loads[Len(loads) - 1].width # cols
    /\ ev.started
    /\ cache = CacheClear
    /\ loading

\* the fixed order of the tabs, written out
TabAfter ==
    [t \in {"dao", "fees", "wallet", "proposals"} |->
        CASE t = "dao" -> "fees"
          [] t = "fees" -> "wallet"
          [] t = "wallet" -> "proposals"
          [] t = "proposals" -> "dao"]

TabBefore ==
    [t \in {"dao", "fees", "wallet", "proposals"} |->
        CASE t = "dao" -> "proposals"
          [] t = "fees" -> "dao"
          [] t = "wallet" -> "fees"
          [] t = "proposals" -> "wallet"]

\* the step switched to tab t: stack emptied, scroll and cursor reset,
\* loadAndRender called
SwitchedTo(t) ==
    /\ tab' = t
    /\ viewStack' = <<>>
    /\ scrollOffset' = 0
    /\ cursor' = 0
    /\ ev'.lar = "plain"
    /\ ev'.hit \/ ev'.started

\* C14: tab-next and tab-prev empty the drill-down stack, move to the
\* adjacent tab of dao, fees, wallet, proposals with wrap-around at both
\* ends, reset scrollOffset and cursor to 0 and call loadAndRender; tab-prev
\* undoes tab-next and four tab-next come back to the same tab.
C14_TabSwitch ==
    [][/\ TabNext => /\ SwitchedTo(TabAfter[tab])
                      /\ PrevTab(tab') = tab
                      /\ NextTab(NextTab(NextTab(tab'))) = tab
       /\ TabPrev => /\ SwitchedTo(TabBefore[tab])
                      /\ NextTab(tab') = tab]_vars

\* the first key pressed after the dao view had loaded went from dao, the
\* first tab, round to proposals, the last
C14_Witness ==
    /\ tab = "proposals"
    /\ ev.lar = "plain"
    /\ ev.started
    /\ loadGeneration = 2
    /\ Len(loads) = 1
    /\ DOMAIN cache = {"dao"}
    /\ scrollOffset = 0
    /\ viewStack = <<>>

\* the serialised form of what view t returns: its payload, or, for the dao
\* view, which has none, the array of its lines, one element per line
JsonShape(t, lines) ==
    IF t = "dao"
    THEN /\ Len(lines) \in {n + 2 : n \in LineCounts}
         /\ lines[1] = "["
         /\ lines[Len(lines)] = "]"
         /\ \A k \in 2..(Len(lines) - 1) :
              lines[k] = "  \"dao\"" \o (IF k < Len(lines) - 1 THEN "," ELSE "")
    ELSE lines = <<"{", "  \"" \o t \o "\": 1", "}">>

\* a load applied while JSON mode is active shows the serialised form and no
\* secondary stream
JsonCompletion ==
    (ev'.outcome = "applied" /\ jsonMode) =>
        /\ currentFixedRight' = <<>>
        /\ JsonShape(ev'.doneVid, currentLines')

\* C15 as stated: a toggle of JSON mode, in either direction, flips the flag,
\* sets scrollOffset to 0 and begins a load of the current view; a load
\* applied in JSON mode shows the serialised form without secondary stream.
C15_ToggleForcesReload ==
    [][/\ (jsonMode' # jsonMode /\ exitCode' = Running) =>
            /\ scrollOffset' = 0
            /\ currentViewId' = currentViewId
            /\ BeganLoad
       /\ JsonCompletion]_vars

\* C15, amended: a toggle flips the flag, sets scrollOffset to 0 and calls
\* loadAndRender without forcing: switching JSON mode on always begins a load
\* of the current view; switching it off begins one unless the cache holds an
\* entry of the current view less than 30,000 ms old, which is then shown
\* with no load begun. A load applied in JSON mode shows the serialised form
\* without secondary stream.
C15_ToggleReloadsUnlessCached ==
    [][/\ (jsonMode' # jsonMode /\ exitCode' = Running) =>
            LET key == viewKey(currentViewId)
            IN /\ scrollOffset' = 0
               /\ currentViewId' = currentViewId
               /\ cache' = cache
               /\ IF ~jsonMode' /\ key \in DOMAIN cache
                                /\ now - cache[key].ts < 30000
                  THEN /\ ev'.hit
                       /\ ~ev'.started
                       /\ loadGeneration' = loadGeneration
                       /\ loads' = loads
                       /\ currentLines' = cache[key].lines
                       /\ currentFixedRight' = cache[key].fixedRight
                  ELSE BeganLoad
       /\ JsonCompletion]_vars

\* JSON mode was switched on for the dao view and off again before the load
\* it began had completed: the cache entry is shown and no second load begun
C15_Witness ==
    /\ ~jsonMode
    /\ ev.hit
    /\ tab = "dao"
    /\ viewStack = <<>>
    /\ loadGeneration = 2
    /\ Len(loads) = 1
    /\ loads[1].gen = 2
    /\ loads[1].vid = ViewId("dao")
    /\ "dao" \in DOMAIN cache

\* ---------------------------------------------------------------------------
\* Further properties of the key listener (checked under SpecInput)
\* ---------------------------------------------------------------------------

\* the documented key table: the chunk of each key and the action it stands for
DocumentedKeys ==
    {<<ArrowUp, "up">>, <<<<107>>, "up">>,
     <<ArrowDown, "down">>, <<<<106>>, "down">>,
     <<<<9>>, "tab-next">>, <<ShiftTab, "tab-prev">>,
     <<<<91>>, "sub-prev">>, <<<<93>>, "sub-next">>,
     <<PageUpSeq, "page-up">>, <<PageDownSeq, "page-down">>,
     <<<<103>>, "top">>, <<<<71>>, "bottom">>,
     <<<<114>>, "refresh">>, <<<<113>>, "quit">>}

\* C16: every key of the documented table, when its chunk arrives, hands the
\* handler exactly one action, the documented one (up and k scroll up, down
\* and j scroll down, and so on).
C16_KeyTable ==
    \A i \in 1..Len(arrived) :
        \A key \in DocumentedKeys :
            arrived[i].chunk = key[1] =>
                /\ Cardinality(DeliveredFor(i)) = 1
                /\ \A k \in DeliveredFor(i) : delivered[k].type = key[2]

\* ---------------------------------------------------------------------------
\* The renderer (renderer.ts): the frame render() hands to writeFrame. A line
\* is modelled by its text; colours and the padding or truncation to the
\* terminal width change no line count and are left out.
\* ---------------------------------------------------------------------------

RenderTabBar(activeTab, width) == " Akita DAO   [" \o activeTab \o "]"

RenderSeparator(width) == "---"

RenderStatusBar(so, totalLines, vh, width, ld) ==
    IF ld THEN "status: loading... "
    ELSE IF totalLines <= vh THEN "status: ln "
    ELSE "status: % ln "

LineAt(lines, idx) == IF idx <= Len(lines) THEN lines[idx] ELSE ""

\* lines 3..N-1 of the frame: the viewport, in two-panel or in normal mode
RenderViewport(so, lines, vh, right) ==
    IF Len(right) > 0
    THEN [i \in 1..vh |-> LineAt(lines, so + i) \o " " \o LineAt(right, so + i)]
    ELSE [i \in 1..vh |-> LineAt(lines, so + i)]

\* a frame that leaves the status bar out
RenderFrameNoStatus(activeTab, so, lines, termRows, termCols, ld, right) ==
    <<RenderTabBar(activeTab, termCols), RenderSeparator(termCols)>>
    \o RenderViewport(so, lines, termRows - 3, right)

RenderFrame(activeTab, so, lines, termRows, termCols, ld, right) ==
    <<RenderTabBar(activeTab, termCols), RenderSeparator(termCols)>>
    \o RenderViewport(so, lines, termRows - 3, right)
    \o <<RenderStatusBar(so, TotalLines(lines, right), termRows - 3, termCols, ld)>>

\* render(): the frame of the current state
Frame ==
    RenderFrame(tab, scrollOffset, currentLines, rows, cols, loading,
                currentFixedRight)

\* C17: the frame rendered for any state of the dashboard, with a terminal of
\* at least 4 rows, has exactly rows lines: the tab bar, the separator,
\* rows - 3 viewport lines and the status bar, with one stream and with two.
C17_FrameHasRowsLines ==
    (Started /\ rows >= 4) =>
        /\ Len(Frame) = rows
        /\ Frame[1] = RenderTabBar(tab, cols)
        /\ Frame[2] = RenderSeparator(cols)
        /\ Frame[rows] \in {"status: loading... ", "status: ln ", "status: % ln "}
        /\ \A i \in 3..(rows - 1) :
             Frame[i] \notin {RenderTabBar(tab, cols), RenderSeparator(cols),
                              "status: loading... ", "status: ln ", "status: % ln "}

\* a two-panel frame, scrolled down, while a load is in flight
C17_Witness ==
    /\ Started
    /\ Len(currentFixedRight) > 0
    /\ scrollOffset > 0
    /\ loading
    /\ Len(Frame) = rows

\* ---------------------------------------------------------------------------
\* terminal.ts on its own: enterRawMode and exitRawMode called in any order,
\* on a terminal or with stdin redirected
\* ---------------------------------------------------------------------------

MaxCalls == 6

InitTerminal ==
    /\ Boot
    /\ isTTY \in BOOLEAN
    /\ keyListener = FALSE
    /\ call = NoCall
    /\ genLimit = MaxGen

keepOnTerminalCall ==
    <<appVars, tuiVars, viewVars, isTTY, exitCode, stopKeyListener,
      removeResizeListener, keyListener, resizeListener, envVars, inputVars,
      ev, call, genLimit>>

EnterCall ==
    /\ Len(calls) < MaxCalls
    /\ calls' = Append(calls, "enterRawMode")
    /\ EnterRawMode
    /\ UNCHANGED keepOnTerminalCall

ExitCall ==
    /\ Len(calls) < MaxCalls
    /\ calls' = Append(calls, "exitRawMode")
    /\ ExitRawMode
    /\ UNCHANGED keepOnTerminalCall

NextTerminal == EnterCall \/ ExitCall

SpecTerminal == InitTerminal /\ [][NextTerminal]_vars

\* what one call does to the flag and to stdout
RawModeCallEffect ==
    /\ (written' # written) =>
          /\ Len(written') = Len(written) + 1
          /\ (written'[Len(written')] = EnterSeq) => (~isRawMode /\ isRawMode')
          /\ (written'[Len(written')] = LeaveSeq) => (isRawMode /\ ~isRawMode')
    /\ (calls' = Append(calls, "enterRawMode") /\ isRawMode) =>
          UNCHANGED <<isRawMode, stdinRaw, altScreen, cursorHidden, written>>
    /\ (calls' = Append(calls, "exitRawMode") /\ ~isRawMode) =>
          UNCHANGED <<isRawMode, stdinRaw, altScreen, cursorHidden, written>>
    /\ (calls' = Append(calls, "enterRawMode") /\ ~isRawMode) =>
          written' = Append(written, EnterSeq)
    /\ (calls' = Append(calls, "exitRawMode") /\ isRawMode) =>
          written' = Append(written, LeaveSeq)

\* C20: in any sequence of enterRawMode and exitRawMode calls the enter
\* sequence is written only by a call made with raw mode off and the leave
\* sequence only by one made with raw mode on; a call made in the other case
\* changes and writes nothing; so the writes alternate, the first being the
\* enter sequence, and the alternate screen is active exactly when isRawMode
\* is true.
C20_RawModeIdempotent ==
    /\ [](altScreen <=> isRawMode)
    /\ [](\A i \in 1..Len(written) :
            written[i] = (IF i % 2 = 1 THEN EnterSeq ELSE LeaveSeq))
    /\ [][RawModeCallEffect]_vars

\* enter, enter again, exit, exit again, enter: three writes for five calls
C20_Witness ==
    /\ calls = <<"enterRawMode", "enterRawMode", "exitRawMode", "exitRawMode",
                 "enterRawMode">>
    /\ written = <<EnterSeq, LeaveSeq, EnterSeq>>
    /\ isRawMode
    /\ altScreen

\* ---------------------------------------------------------------------------
\* output.ts and panels.ts: pure functions on strings. A string is the
\* sequence of its character codes (27 ESC, 32 space, 48..57 digits, 59 ';',
\* 91 '[', 109 'm', 9472.. the box-drawing characters).
\* ---------------------------------------------------------------------------

\* padding = 1 when opts.padding is not given
DEFAULT_PADDING == 1

\* c.repeat(n)
Repeat(c, n) == [i \in 1..n |-> c]

\* the first position from i on whose character is not one of [0-9;]
ParamsEnd(str, i) ==
    IF \E j \in i..Len(str) : ~(str[j] \in 48..57 \/ str[j] = 59)
    THEN CHOOSE j \in i..Len(str) :
            /\ ~(str[j] \in 48..57 \/ str[j] = 59)
            /\ \A k \in i..(j - 1) : str[k] \in 48..57 \/ str[k] = 59
    ELSE Len(str) + 1

\* the end of the match of /\x1b\[[0-9;]*m/ that starts at i, 0 if none
SgrMatchEnd(str, i) ==
    IF /\ i + 1 <= Len(str)
       /\ str[i] = 27
       /\ str[i + 1] = 91
       /\ ParamsEnd(str, i + 2) <= Len(str)
       /\ str[ParamsEnd(str, i + 2)] = 109
    THEN ParamsEnd(str, i + 2)
    ELSE 0

RECURSIVE StripAnsi(_, _)
\* str.replace(/\x1b\[[0-9;]*m/g, ""), from position i on
StripAnsi(str, i) ==
    IF i > Len(str) THEN <<>>
    ELSE IF SgrMatchEnd(str, i) > 0 THEN StripAnsi(str, SgrMatchEnd(str, i) + 1)
    ELSE <<str[i]>> \o StripAnsi(str, i + 1)

visibleLength(str) == Len(StripAnsi(str, 1))

padEndVisible(str, len) ==
    LET diff == len - visibleLength(str)
    IN IF diff > 0 THEN str \o Repeat(32, diff) ELSE str

\* str.indexOf("m", i), 0 for not found
IndexOfM(str, i) ==
    IF \E j \in i..Len(str) : str[j] = 109
    THEN CHOOSE j \in i..Len(str) :
            str[j] = 109 /\ \A k \in i..(j - 1) : str[k] # 109
    ELSE 0

RECURSIVE TruncateLoop(_, _, _, _, _)
\* the while loop of truncateAnsi
TruncateLoop(str, maxWidth, i, visible, result) ==
    IF ~(i <= Len(str) /\ visible < maxWidth) THEN result
    ELSE IF /\ str[i] = 27
            /\ i + 1 <= Len(str)
            /\ str[i + 1] = 91
            /\ IndexOfM(str, i) # 0
    THEN TruncateLoop(str, maxWidth, IndexOfM(str, i) + 1, visible,
                      result \o SubSeq(str, i, IndexOfM(str, i)))
    ELSE TruncateLoop(str, maxWidth, i + 1, visible + 1, Append(result, str[i]))

truncateAnsi(str, maxWidth) ==
    TruncateLoop(str, maxWidth, 1, 0, <<>>) \o <<27, 91, 48, 109>>

\* theme.border = chalk.dim, theme.panelTitle = chalk.bold.hex(...): the
\* text between an opening and a closing colour sequence
ThemeBorder(str) == <<27, 91, 50, 109>> \o str \o <<27, 91, 50, 50, 109>>

ThemePanelTitle(str) ==
    <<27, 91, 49, 109, 27, 91, 51, 56, 59, 50, 59, 49, 52, 56, 109>> \o str
    \o <<27, 91, 51, 57, 109, 27, 91, 50, 50, 109>>

renderPanel(content, width, title, padding) ==
    IF width < 4 THEN content
    ELSE
    LET innerWidth == width - 2
        padStr == Repeat(32, padding)
        contentWidth == innerWidth - padding * 2
        titleText == <<32>> \o title \o <<32>>
        ruleAfter == innerWidth - 1 - visibleLength(titleText)
        top == IF title # <<>>
               THEN ThemeBorder(<<9484, 9472>>) \o ThemePanelTitle(titleText)
                    \o ThemeBorder(Repeat(9472, Max(0, ruleAfter)) \o <<9488>>)
               ELSE ThemeBorder(<<9484>> \o Repeat(9472, innerWidth) \o <<9488>>)
        bottom == ThemeBorder(<<9492>> \o Repeat(9472, innerWidth) \o <<9496>>)
        border == ThemeBorder(<<9474>>)
        fitted(line) == IF visibleLength(line) > contentWidth
                        THEN truncateAnsi(line, contentWidth)
                        ELSE padEndVisible(line, contentWidth)
    IN <<top>>
       \o [i \in 1..Len(content) |->
             border \o padStr \o fitted(content[i]) \o padStr \o border]
       \o <<bottom>>

\* a splitWidth that forgets the gaps
splitWidthNoGap(totalWidth, count, gap) ==
    IF count <= 0 THEN <<>>
    ELSE IF count = 1 THEN <<totalWidth>>
    ELSE LET base == totalWidth \div count
             remainder == totalWidth - base * count
         IN [i \in 1..count |-> base + (IF i - 1 < remainder THEN 1 ELSE 0)]

\* Math.floor(available / count) is \div, which rounds down as well
splitWidth(totalWidth, count, gap) ==
    IF count <= 0 THEN <<>>
    ELSE IF count = 1 THEN <<totalWidth>>
    ELSE LET totalGap == gap * (count - 1)
             available == totalWidth - totalGap
             base == available \div count
             remainder == available - base * count
         IN [i \in 1..count |-> base + (IF i - 1 < remainder THEN 1 ELSE 0)]

\* --- the inputs ---

MaxTotal == 12

MaxCount == 4

MaxGap == 3

MaxWidth == 8

MaxTokens == 3

MaxContent == 2

\* the pieces a content line is made of: a letter, a visible 'm', and the
\* colour sequence ESC [ 3 1 m
Tokens == {<<97>>, <<109>>, <<27, 91, 51, 49, 109>>}

RECURSIVE Flatten(_)
Flatten(ss) == IF ss = <<>> THEN <<>> ELSE Head(ss) \o Flatten(Tail(ss))

ContentLines ==
    {Flatten(ts) : ts \in UNION {[1..n -> Tokens] : n \in 0..MaxTokens}}

Contents == UNION {[1..n -> ContentLines] : n \in 0..MaxContent}

Titles == {<<>>, <<88>>}

InitPanels ==
    /\ Boot
    /\ isTTY = TRUE
    /\ keyListener = FALSE
    /\ genLimit = MaxGen
    /\ \/ \E total \in 0..MaxTotal, n \in (-1)..MaxCount, gap \in 0..MaxGap :
            call = [fn |-> "splitWidth", args |-> <<total, n, gap>>,
                    result |-> <<>>, done |-> FALSE]
       \/ \E content \in Contents, width \in 3..MaxWidth, title \in Titles :
            call = [fn |-> "renderPanel",
                    args |-> <<content, width, title, DEFAULT_PADDING>>,
                    result |-> <<>>, done |-> FALSE]

keepOnPureCall ==
    <<appVars, tuiVars, viewVars, termVars, envVars, inputVars, ev, calls,
      genLimit>>

SplitWidthCall ==
    /\ call.fn = "splitWidth"
    /\ ~call.done
    /\ call' = [call EXCEPT
           !.result = splitWidth(call.args[1], call.args[2], call.args[3]),
           !.done = TRUE]
    /\ UNCHANGED keepOnPureCall

RenderPanelCall ==
    /\ call.fn = "renderPanel"
    /\ ~call.done
    /\ call' = [call EXCEPT
           !.result = renderPanel(call.args[1], call.args[2], call.args[3],
                                  call.args[4]),
           !.done = TRUE]
    /\ UNCHANGED keepOnPureCall

NextPanels == SplitWidthCall \/ RenderPanelCall

SpecPanels == InitPanels /\ [][NextPanels]_vars

RECURSIVE SumSeq(_)
SumSeq(q) == IF q = <<>> THEN 0 ELSE Head(q) + SumSeq(Tail(q))

SplitDone == call.fn = "splitWidth" /\ call.done

\* C18: for n >= 1, gap >= 0 and total >= gap * (n - 1), splitWidth(total, n,
\* gap) is a list of n non-negative integers that sum to total - gap * (n - 1),
\* in non-increasing order, any two of them at most 1 apart, the larger ones
\* first; for n <= 0 it is the empty list.
C18_SplitWidth ==
    SplitDone =>
        LET total == call.args[1]
            n == call.args[2]
            gap == call.args[3]
            w == call.result
        IN /\ (n <= 0) => (w = <<>>)
           /\ (n >= 1 /\ gap >= 0 /\ total >= gap * (n - 1)) =>
                 /\ Len(w) = n
                 /\ \A i \in 1..n : w[i] \in Nat
                 /\ SumSeq(w) = total - gap * (n - 1)
                 /\ \A i \in 1..(n - 1) : w[i] >= w[i + 1]
                 /\ \A i, j \in 1..n : w[i] - w[j] <= 1
                 /\ \A i \in 1..n :
                      w[i] = ((total - gap * (n - 1)) \div n)
                             + (IF i <= (total - gap * (n - 1)) % n THEN 1 ELSE 0)

\* 11 columns among 3 panels with gaps of 2: 7 columns left, shared 3, 2, 2
C18_Witness ==
    /\ SplitDone
    /\ call.args = <<11, 3, 2>>
    /\ call.result = <<3, 2, 2>>

PanelDone == call.fn = "renderPanel" /\ call.done

\* C19: a panel with title "X" and a width W >= 4, default padding, has W
\* visible columns on every line: the top border with the title, every
\* content line, padded or truncated, and the bottom border.
C19_PanelLinesHaveWidth ==
    (PanelDone /\ call.args[3] = <<88>> /\ call.args[2] >= 4) =>
        /\ Len(call.result) = Len(call.args[1]) + 2
        /\ \A i \in 1..Len(call.result) :
             visibleLength(call.result[i]) = call.args[2]

\* ---------------------------------------------------------------------------
\* Properties of the view state machine, continued (checked under Spec)
\* ---------------------------------------------------------------------------

\* the step is the completion of a load begun under an older generation
StaleCompletion == ev'.done # 0 /\ ev'.done # loadGeneration

\* C21: the completion, with a result or with an error, of a load whose
\* generation is not the current one changes nothing: the displayed lines,
\* the right-hand stream, the cache, the loading flag, scrollOffset and the
\* pending scroll stay as they were, and so does the frame on the screen.
C21_StaleCompletionChangesNothing ==
    [][StaleCompletion =>
          /\ UNCHANGED <<currentLines, currentFixedRight, cache, loading,
                         scrollOffset, pendingScrollTo, loadGeneration>>
          /\ Frame' = Frame
          /\ ev'.outcome = "discarded"]_vars

\* the load of a tab left behind completed while the load of the tab shown
\* was still in flight, over content and a cache entry from an earlier load
C21_Witness ==
    /\ ev.outcome = "discarded"
    /\ ev.done < loadGeneration
    /\ loading
    /\ Len(currentLines) > 0
    /\ cache # CacheClear

\* ---------------------------------------------------------------------------
\* Properties of the key listener, continued (checked under SpecInput)
\* ---------------------------------------------------------------------------

\* the multi-byte sequences of the escape table, written out
Continuations == {ArrowUp, ArrowDown, PageUpSeq, PageDownSeq, ShiftTab}

ContinuationAction ==
    [c \in Continuations |->
        CASE c = ArrowUp -> "up"
          [] c = ArrowDown -> "down"
          [] c = PageUpSeq -> "page-up"
          [] c = PageDownSeq -> "page-down"
          [] c = ShiftTab -> "tab-prev"]

\* chunk i is a lone escape byte whose timer had not fired when chunk i + 1
\* arrived
PendingAtNext(i) ==
    /\ i + 1 <= Len(arrived)
    /\ arrived[i].chunk = LoneEsc
    /\ \A k \in DeliveredFor(i) : \E j \in DeliveredFor(i + 1) : j < k

\* C22: when a known multi-byte escape sequence arrives while the timer of a
\* lone escape byte is pending, the timer is cancelled, no "back" is ever
\* handed over for that byte, and the one action handed over for the
\* sequence is the one of the escape table.
C22_ContinuationCancelsEscape ==
    \A i \in 1..Len(arrived) :
        (PendingAtNext(i) /\ arrived[i + 1].chunk \in Continuations) =>
            /\ DeliveredFor(i) = {}
            /\ Cardinality(DeliveredFor(i + 1)) = 1
            /\ \A k \in DeliveredFor(i + 1) :
                 /\ delivered[k].type = ContinuationAction[arrived[i + 1].chunk]
                 /\ delivered[k].wait = 0
            /\ (i + 1 = Len(arrived)) => (escTimer = NoTimer /\ escChunk = 0)

\* escape, then arrow down 25 ms later, and the 50 ms of the escape gone by
C22_Witness ==
    /\ Len(arrived) = 2
    /\ arrived[1].chunk = LoneEsc
    /\ arrived[2].chunk = ArrowDown
    /\ arrived[2].at = arrived[1].at + 25
    /\ now >= arrived[1].at + 75
    /\ Len(delivered) = 1
    /\ delivered[1].type = "down"
    /\ keyListener

\* a chunk that is in neither table and is not the lone escape byte
Unrecognized(buf) ==
    /\ buf # CtrlC
    /\ buf # LoneEsc
    /\ IF StartsWithEsc(buf) THEN buf \notin Continuations
                             ELSE mapCharKey(buf) = NoAction

\* C23: a chunk that is not recognized has no action handed over and leaves
\* the pending escape as it was: a lone escape byte followed only by
\* unrecognized chunks is still pending, or has had its one "back", as long
\* as the listener is installed; so every lone escape byte gets exactly one
\* action, once its 50 ms have passed.
C23_UnrecognizedIgnored ==
    \A i \in 1..Len(arrived) :
        /\ Unrecognized(arrived[i].chunk) => DeliveredFor(i) = {}
        /\ ( /\ arrived[i].chunk = LoneEsc
             /\ \A j \in (i + 1)..Len(arrived) : Unrecognized(arrived[j].chunk)
             /\ keyListener ) =>
               \/ escChunk = i /\ escTimer = arrived[i].at + 50
               \/ /\ Cardinality(DeliveredFor(i)) = 1
                  /\ \A k \in DeliveredFor(i) : delivered[k].type = "back"

\* ---------------------------------------------------------------------------
\* The scroll keys
\* ---------------------------------------------------------------------------

ScrollStep == Up \/ Down \/ PageUp \/ PageDown \/ Top \/ Bottom

\* C24: the scroll keys (up, down, page-up, page-down, top, bottom) begin no
\* load and serve no cache entry: the cache, the generation counter, the
\* loading flag, the suspended loads, the displayed content, the tab, the
\* view stack and the raw/export mode stay as they were; nothing but
\* scrollOffset changes.
C24_ScrollKeysDoNotLoad ==
    [][ScrollStep =>
          /\ UNCHANGED <<cache, loadGeneration, loading, loads, currentLines,
                         currentFixedRight, tab, viewStack, jsonMode, isRawMode,
                         cursor, pendingScrollTo, viewVars>>
          /\ ev'.lar = "none"
          /\ ~ev'.started
          /\ ~ev'.hit]_vars

\* scrolled to the end of the old content while the next tab is loading
C24_Witness ==
    /\ Started
    /\ loading
    /\ Len(loads) > 0
    /\ ev = EvNone
    /\ scrollOffset > 0
    /\ scrollOffset = MaxScroll(currentLines, currentFixedRight, viewportHeight)

\* --- the scroll arithmetic on its own ---

MaxOffset == 35

ScrollTypes == {"up", "down", "page-up", "page-down", "top", "bottom"}

LeftLengths == {0, 5, 12, 30}

RightLengths == {0, 20}

ViewportHeights == {1, 5, 21}

InitScroll ==
    /\ Boot
    /\ isTTY = TRUE
    /\ keyListener = FALSE
    /\ genLimit = MaxGen
    /\ \E type \in ScrollTypes, so \in 0..MaxOffset, n \in LeftLengths,
          r \in RightLengths, vh \in ViewportHeights :
         call = [fn |-> "scroll", args |-> <<type, so, n, r, vh>>,
                 result |-> <<>>, done |-> FALSE]

ScrollCall ==
    /\ call.fn = "scroll"
    /\ ~call.done
    /\ call' = [call EXCEPT
           !.result = <<ScrollKey(call.args[1], call.args[2],
                                  ViewLines("left", call.args[3]),
                                  ViewLines("right", call.args[4]),
                                  call.args[5])>>,
           !.done = TRUE]
    /\ UNCHANGED keepOnPureCall

SpecScroll == InitScroll /\ [][ScrollCall]_vars

ScrollDone == call.fn = "scroll" /\ call.done

\* C25: with maxScroll = max(0, totalLines - viewportHeight) and s in
\* 0..maxScroll, up gives max(0, s - 1), down min(maxScroll, s + 1), page-up
\* max(0, s - 10), page-down min(maxScroll, s + 10), top 0 and bottom
\* maxScroll, each of them in 0..maxScroll again.
C25_ScrollArithmetic ==
    ScrollDone =>
        LET type == call.args[1]
            s == call.args[2]
            total == IF call.args[3] >= call.args[4] THEN call.args[3]
                                                    ELSE call.args[4]
            vh == call.args[5]
            maxScroll == IF total - vh > 0 THEN total - vh ELSE 0
            after == call.result[1]
            atLeast0(x) == IF x < 0 THEN 0 ELSE x
            atMost(x) == IF x > maxScroll THEN maxScroll ELSE x
        IN (s \in 0..maxScroll) =>
             /\ after \in 0..maxScroll
             /\ (type = "up") => (after = atLeast0(s - 1))
             /\ (type = "down") => (after = atMost(s + 1))
             /\ (type = "page-up") => (after = atLeast0(s - 10))
             /\ (type = "page-down") => (after = atMost(s + 10))
             /\ (type = "top") => (after = 0)
             /\ (type = "bottom") => (after = maxScroll)

\* a page down from line 12 of 30 lines in a viewport of 5: line 22, short of
\* the last page at 25
C25_Witness ==
    /\ ScrollDone
    /\ call.args = <<"page-down", 12, 30, 20, 5>>
    /\ call.result = <<22>>

\* ---------------------------------------------------------------------------
\* Properties of sub-navigation and of the pending scroll (checked under
\* SpecWallet)
\* ---------------------------------------------------------------------------

\* index idx moved by dir among count items, round the ends
Cycled(idx, dir, count) ==
    IF dir = 1 THEN (IF idx + 1 >= count THEN 0 ELSE idx + 1)
    ELSE (IF idx = 0 THEN count - 1 ELSE idx - 1)

\* the step removed the cache entry of view key and no other
DeletedEntry(key) ==
    /\ key \notin DOMAIN cache'
    /\ \A k \in DOMAIN cache \ {key} : k \in DOMAIN cache' /\ cache'[k] = cache[k]
    /\ DOMAIN cache' \subseteq DOMAIN cache

\* what sub-next (dir = 1) and sub-prev (dir = -1) do
SubNavigated(dir) ==
    IF tab = "wallet"
    THEN /\ accountIdx' = (IF accountCount <= 1 THEN accountIdx
                           ELSE Cycled(accountIdx, dir, accountCount))
         /\ tab' = tab
         /\ viewStack' = viewStack
         /\ DeletedEntry("wallet")
         /\ BeganLoad
    ELSE IF tab = "proposals" /\ viewStack = <<>>
    THEN /\ \/ propCursor' = (IF proposalCount <= 0 THEN propCursor
                               ELSE Cycled(propCursor, dir, proposalCount))
            \/ proposalCount = 0 /\ propCursor' = 0
         /\ tab' = tab
         /\ viewStack' = viewStack
         /\ DeletedEntry("proposals")
         /\ BeganLoad
    ELSE SwitchedTo(IF dir = 1 THEN TabAfter[tab] ELSE TabBefore[tab])

TargetShown ==
    /\ scrollOffset' <= selectedLine' + 1
    /\ selectedLine' + 1 < scrollOffset' + (rows' - 3)

AppliedCompletion == ev'.outcome \in {"applied", "error"}

\* C27: a pending scroll is set by a key action only; it is resolved at the
\* first completion, with a result or with an error, of a load of the current
\* generation, which moves scrollOffset so that the viewport shows the target
\* line, and it is null after that; the completion of a stale load and a
\* cache hit leave it pending; nothing else clears it.
C27_PendingScrollResolvedOnce ==
    [][(ev'.exit = "none") =>
          /\ (pendingScrollTo' /\ ~pendingScrollTo) =>
                ((SubNext \/ SubPrev) /\ tab = "wallet")
          /\ (pendingScrollTo /\ AppliedCompletion) =>
                (~pendingScrollTo' /\ TargetShown)
          /\ (pendingScrollTo /\ (ev'.outcome = "discarded" \/ ev'.hit)) =>
                pendingScrollTo'
          /\ (pendingScrollTo /\ ~pendingScrollTo') => AppliedCompletion]_vars

\* ---------------------------------------------------------------------------
\* Navigation into and out of a view (checked under Spec)
\* ---------------------------------------------------------------------------

\* the step served the current view from a cache entry less than 30 s old
ServedFromCache ==
    LET key == CurrentViewIdOf(viewStack', tab').tab
    IN /\ ev'.hit
       /\ ~ev'.started
       /\ key \in DOMAIN cache
       /\ now - cache[key].ts < 30000
       /\ ~jsonMode
       /\ loadGeneration' = loadGeneration
       /\ loads' = loads
       /\ loading' = loading
       /\ currentLines' = cache[key].lines
       /\ currentFixedRight' = cache[key].fixedRight

\* the step pushed view t, reset scroll and cursor, and went on as after
NavigatedTo(t, after) ==
    /\ viewStack' = viewStack \o <<[tab |-> t]>>
    /\ currentViewId' = [tab |-> t]
    /\ tab' = tab
    /\ scrollOffset' = 0
    /\ cursor' = 0
    /\ after

\* the step popped one view, or did nothing on an empty stack
WentBack(after) ==
    IF viewStack # <<>>
    THEN /\ Len(viewStack') = Len(viewStack) - 1
         /\ \A k \in 1..Len(viewStack') : viewStack'[k] = viewStack[k]
         /\ tab' = tab
         /\ scrollOffset' = 0
         /\ cursor' = 0
         /\ after
    ELSE /\ UNCHANGED <<appVars, tuiVars, viewVars>>
         /\ ~ev'.started
         /\ ~ev'.hit

MaxVisibleLength(lines) ==
    CHOOSE w \in {visibleLength(lines[k]) : k \in 1..Len(lines)} :
        \A k \in 1..Len(lines) : visibleLength(lines[k]) <= w

\* a lookup that starts again at the top when it runs past the end
ViewportLineWraps(lines, idx) ==
    IF Len(lines) = 0 THEN <<>> ELSE lines[(idx % Len(lines)) + 1]

\* idx < lines.length ? lines[idx] : ""   (idx counts from 0)
ViewportLine(lines, idx) == IF idx < Len(lines) THEN lines[idx + 1] ELSE <<>>

\* a viewport whose right-hand panel does not scroll
renderFrameViewportRightFixed(start, contentLines, height, termCols, fixedRight) ==
    IF Len(fixedRight) > 0
    THEN LET leftWidth == termCols - MaxVisibleLength(fixedRight) - 1
         IN [i \in 1..height |->
               padEndVisible(truncateAnsi(ViewportLine(contentLines, start + i - 1),
                                          leftWidth), leftWidth)
               \o <<32>> \o ViewportLine(fixedRight, i - 1)]
    ELSE [i \in 1..height |->
            ViewportLine(contentLines, start + i - 1)]

renderFrameViewport(start, contentLines, height, termCols, fixedRight) ==
    IF Len(fixedRight) > 0
    THEN LET rightWidth == MaxVisibleLength(fixedRight)
             leftWidth == termCols - rightWidth - 1
         IN [i \in 1..height |->
               LET idx == start + i - 1
                   leftLine == ViewportLine(contentLines, idx)
                   rightLine == ViewportLine(fixedRight, idx)
                   left == padEndVisible(truncateAnsi(leftLine, leftWidth),
                                         leftWidth)
               IN left \o <<32>> \o rightLine]
    ELSE [i \in 1..height |->
            LET line == ViewportLine(contentLines, start + i - 1)
            IN IF start + i - 1 < Len(contentLines)
               THEN (IF visibleLength(line) > termCols
                     THEN truncateAnsi(line, termCols) ELSE line)
               ELSE <<>>]

\* --- the inputs: line k of the left stream reads Lkk, of the right Rkk ---

NumberedLines(letter, n) ==
    [k \in 1..n |-> <<letter, 48 + ((k - 1) \div 10), 48 + ((k - 1) % 10)>>]

FrameLefts == {0, 3, 50}

FrameRights == {0, 2, 10}

FrameRows == {4, 8, 23}

FrameOffsets == {0, 1, 2, 45, 49, 50}

FrameCols == {6, 20, 80}

InitFrame ==
    /\ Boot
    /\ isTTY = TRUE
    /\ keyListener = FALSE
    /\ genLimit = MaxGen
    /\ \E n \in FrameLefts, r \in FrameRights, termRows \in FrameRows,
          so \in FrameOffsets, termCols \in FrameCols :
         call = [fn |-> "renderFrame",
                 args |-> <<so, n, termRows, termCols, r>>,
                 result |-> <<>>, done |-> FALSE]

FrameCall ==
    /\ call.fn = "renderFrame"
    /\ ~call.done
    /\ call' = [call EXCEPT
           !.result = renderFrameViewport(call.args[1],
                                          NumberedLines(76, call.args[2]),
                                          call.args[3] - 3, call.args[4],
                                          NumberedLines(82, call.args[5])),
           !.done = TRUE]
    /\ UNCHANGED keepOnPureCall

SpecFrame == InitFrame /\ [][FrameCall]_vars

FrameDone == call.fn = "renderFrame" /\ call.done

\* the text of line idx (from 0) of a stream of n lines with the given
\* letter, nothing past its end
TextAt(letter, n, idx) ==
    IF idx < n THEN <<letter, 48 + (idx \div 10), 48 + (idx % 10)>> ELSE <<>>

\* text cut to w columns and filled up with spaces to w columns
InColumn(text, w) ==
    [k \in 1..(IF w > 0 THEN w ELSE 0) |-> IF k <= Len(text) THEN text[k] ELSE 32]

\* C29: with a non-empty right-hand stream, viewport row i (from 0) shows
\* line scrollOffset + i of the left stream in the left column and line
\* scrollOffset + i of the right stream after it, each blank when that index
\* is at or past the end of its own stream, both with the same scrollOffset;
\* with an empty right-hand stream row i is line scrollOffset + i of the one
\* stream, or empty.
C29_PanelsScrollTogether ==
    FrameDone =>
        LET so == call.args[1]
            n == call.args[2]
            vh == call.args[3] - 3
            termCols == call.args[4]
            r == call.args[5]
            row(i) == StripAnsi(call.result[i + 1], 1)
        IN /\ Len(call.result) = vh
           /\ \A i \in 0..(vh - 1) :
                IF r > 0
                THEN row(i) = InColumn(TextAt(76, n, so + i), termCols - 3 - 1)
                              \o <<32>> \o TextAt(82, r, so + i)
                ELSE row(i) = TextAt(76, n, so + i)

\* 50 lines left, 10 right, scrolled to 2 in a viewport of 5 rows
C29_Witness ==
    /\ FrameDone
    /\ call.args = <<2, 50, 8, 20, 10>>
    /\ StripAnsi(call.result[1], 1)
         = <<76, 48, 50>> \o [k \in 1..13 |-> 32] \o <<32>> \o <<82, 48, 50>>

\* the scenario: 50 lines left, 10 right, viewport of 20 rows, scrollOffset 45
Scenario50 ==
    /\ FrameDone
    /\ call.args[1] = 45
    /\ call.args[2] = 50
    /\ call.args[3] = 23
    /\ call.args[5] = 10

\* the viewport rows whose left column is blank, and those whose right is
BlankLeftRows ==
    {i \in 1..Len(call.result) :
        LET w == IF call.args[4] - 4 > 0 THEN call.args[4] - 4 ELSE 0
        IN \A k \in 1..w : StripAnsi(call.result[i], 1)[k] = 32}

BlankRightRows ==
    {i \in 1..Len(call.result) :
        LET w == IF call.args[4] - 4 > 0 THEN call.args[4] - 4 ELSE 0
        IN Len(StripAnsi(call.result[i], 1)) = w + 1}

ShowsLines45To49 ==
    \A i \in 1..5 :
        LET w == IF call.args[4] - 4 > 0 THEN call.args[4] - 4 ELSE 0
        IN SubSeq(StripAnsi(call.result[i], 1), 1, w)
             = InColumn(<<76, 52, 52 + i>>, w)

\* C30 as stated: in the scenario the left column shows lines 45 to 49
\* followed by 5 blank lines and the right column is blank on every row.
C30_Scenario5Blank ==
    Scenario50 =>
        /\ ShowsLines45To49
        /\ BlankLeftRows = 6..10
        /\ BlankRightRows = 1..Len(call.result)

\* C30, amended: in the scenario the viewport has 20 rows; the left column
\* shows lines 45 to 49 followed by 15 blank lines and the right column is
\* blank on every row.
C30_Scenario15Blank ==
    Scenario50 =>
        /\ Len(call.result) = 20
        /\ ShowsLines45To49
        /\ BlankLeftRows = 6..20
        /\ BlankRightRows = 1..20

C30_Witness ==
    /\ Scenario50
    /\ call.args[4] = 80
    /\ Len(call.result) = 20
    /\ StripAnsi(call.result[5], 1) = InColumn(<<76, 52, 57>>, 76) \o <<32>>
    /\ StripAnsi(call.result[6], 1) = InColumn(<<>>, 76) \o <<32>>

\* ---------------------------------------------------------------------------
\* The right-hand part of the status bar (renderStatusBar), character by
\* character: "loading... ", "<n> ln " or "<p>% (<n> ln) "
\* ---------------------------------------------------------------------------

RECURSIVE Digits(_)
\* `${n}` of a non-negative integer
Digits(n) == IF n < 10 THEN <<48 + n>> ELSE Digits(n \div 10) \o <<48 + (n % 10)>>

\* --- the arithmetic of line 115 is that of IEEE 754 doubles: a / b is
\* rounded to 53 significant bits, the product with 100 is rounded again, and
\* Math.round takes the nearest integer of that double (a half goes up).
\* A double is kept as m = <<1, d1, d2, d3, d4>>, the first of its 53
\* significant bits followed by four digits of 13 bits, and e, the exponent
\* of the first bit ---

RECURSIVE Pow2(_)
Pow2(k) == IF k = 0 THEN 1 ELSE 2 * Pow2(k - 1)

DIGIT == Pow2(13)

\* the largest k with b * 2^k <= a, for a >= b > 0
RECURSIVE Log2Floor(_, _)
Log2Floor(a, b) == IF 2 * b <= a THEN 1 + Log2Floor(a, 2 * b) ELSE 0

\* the smallest k with a * 2^k >= b, for a > 0
RECURSIVE Log2Ceil(_, _)
Log2Ceil(a, b) == IF a >= b THEN 0 ELSE 1 + Log2Ceil(2 * a, b)

\* m + 1, digit by digit from the last
RECURSIVE IncDigits(_, _)
IncDigits(m, i) ==
    IF i = 1 THEN [m EXCEPT ![1] = m[1] + 1]
    ELSE IF m[i] + 1 < DIGIT THEN [m EXCEPT ![i] = m[i] + 1]
    ELSE IncDigits([m EXCEPT ![i] = 0], i - 1)

\* the double with significant bits m, rounded up or not
RoundedDouble(m, e, up) ==
    LET r == IF up THEN IncDigits(m, 5) ELSE m
    IN IF r[1] = 2 THEN [m |-> <<1, 0, 0, 0, 0>>, e |-> e + 1]
                   ELSE [m |-> r, e |-> e]

\* a / b as a double, a > 0, b > 0: round to nearest, ties to even
DivDouble(a, b) ==
    LET e == IF a >= b THEN Log2Floor(a, b) ELSE 0 - Log2Ceil(a, b)
        n == IF a >= b THEN a ELSE a * Pow2(0 - e)
        d == IF a >= b THEN b * Pow2(e) ELSE b
        r0 == n - d
        d1 == (r0 * DIGIT) \div d
        r1 == (r0 * DIGIT) % d
        d2 == (r1 * DIGIT) \div d
        r2 == (r1 * DIGIT) % d
        d3 == (r2 * DIGIT) \div d
        r3 == (r2 * DIGIT) % d
        d4 == (r3 * DIGIT) \div d
        r4 == (r3 * DIGIT) % d
    IN RoundedDouble(<<1, d1, d2, d3, d4>>, e,
                     2 * r4 > d \/ (2 * r4 = d /\ d4 % 2 = 1))

\* x * c as a double, c an integer in 2..8191
MulDouble(x, c) ==
    LET v4 == x.m[5] * c
        v3 == x.m[4] * c + (v4 \div DIGIT)
        v2 == x.m[3] * c + (v3 \div DIGIT)
        v1 == x.m[2] * c + (v2 \div DIGIT)
        top == x.m[1] * c + (v1 \div DIGIT)
        \* the product has 53 + k bits; its last k bits are dropped
        k == Log2Floor(top, 1)
        low == Pow2(k)
        up == DIGIT \div low
        shifted(hi, lo) == ((lo % DIGIT) \div low) + (hi % low) * up
        m == <<top \div low, shifted(top, v1), shifted(v1, v2),
               shifted(v2, v3), shifted(v3, v4)>>
        dropped == v4 % low
    IN RoundedDouble(m, x.e + k,
                     k > 0 /\ (2 * dropped > low
                               \/ (2 * dropped = low /\ m[5] % 2 = 1)))

\* Math.round of a double in [0, 8192): the nearest integer, a half goes up
RoundDouble(x) ==
    IF x.e < -1 THEN 0
    ELSE IF x.e = -1 THEN 1
    ELSE Pow2(x.e) + (x.m[2] \div Pow2(13 - x.e))
         + ((x.m[2] \div Pow2(12 - x.e)) % 2)

\* Math.round(((a) / b) * 100) for a >= 0 and b > 0
RoundPct(a, b) ==
    IF a = 0 THEN 0 ELSE RoundDouble(MulDouble(DivDouble(a, b), 100))

\* the variable right of renderStatusBar
StatusIndicator(so, totalLines, vh, ld) ==
    IF ld THEN <<108, 111, 97, 100, 105, 110, 103, 46, 46, 46, 32>>
    ELSE IF totalLines <= vh THEN Digits(totalLines) \o <<32, 108, 110, 32>>
    ELSE LET pct == IF totalLines > 0 THEN RoundPct(so + vh, totalLines) ELSE 100
         IN Digits(Min(pct, 100)) \o <<37, 32, 40>> \o Digits(totalLines)
            \o <<32, 108, 110, 41, 32>>

MaxStatusOffset == 50

StatusLefts == {0, 3, 7, 12, 30, 50}

StatusRights == {0, 2, 10, 40}

StatusRows == {3, 4, 8, 23}

InitStatus ==
    /\ Boot
    /\ isTTY = TRUE
    /\ keyListener = FALSE
    /\ genLimit = MaxGen
    /\ \E so \in 0..MaxStatusOffset, n \in StatusLefts, r \in StatusRights,
          termRows \in StatusRows, ld \in BOOLEAN :
         call = [fn |-> "renderStatusBar", args |-> <<so, n, r, termRows, ld>>,
                 result |-> <<>>, done |-> FALSE]

\* renderFrame's last line: totalLineCount, then renderStatusBar
StatusBarCall ==
    /\ call.fn = "renderStatusBar"
    /\ ~call.done
    /\ call' = [call EXCEPT
           !.result = StatusIndicator(call.args[1],
                                      TotalLines(NumberedLines(76, call.args[2]),
                                                 NumberedLines(82, call.args[3])),
                                      call.args[4] - 3, call.args[5]),
           !.done = TRUE]
    /\ UNCHANGED keepOnPureCall

SpecStatus == InitStatus /\ [][StatusBarCall]_vars

StatusDone == call.fn = "renderStatusBar" /\ call.done

\* p is x rounded to the nearest integer (a half goes up), x = 100 * a / b
NearestPct(p, a, b) == 2 * p * b <= 200 * a + b /\ 200 * a + b < 2 * (p + 1) * b

\* C31: the progress indicator is the loading marker whenever the loading
\* flag is set; otherwise the total line count when totalLines <=
\* viewportHeight, and otherwise min(100, round((scrollOffset +
\* viewportHeight) / totalLines * 100)) percent plus the total line count,
\* totalLines being the larger of the two stream lengths with two streams and
\* the primary stream's length with one; the percentage never exceeds 100.
C31_StatusIndicator ==
    StatusDone =>
        LET so == call.args[1]
            n == call.args[2]
            r == call.args[3]
            vh == call.args[4] - 3
            total == IF r > 0 THEN (IF n >= r THEN n ELSE r) ELSE n
        IN IF call.args[5]
           THEN call.result = <<108, 111, 97, 100, 105, 110, 103, 46, 46, 46, 32>>
           ELSE IF total <= vh
           THEN call.result = Digits(total) \o <<32, 108, 110, 32>>
           ELSE \E p \in 0..100 :
                  /\ call.result = Digits(p) \o <<37, 32, 40>> \o Digits(total)
                                   \o <<32, 108, 110, 41, 32>>
                  /\ \/ NearestPct(p, so + vh, total)
                     \/ p = 100 /\ \E q \in 101..20000 : NearestPct(q, so + vh, total)

\* ---------------------------------------------------------------------------
\* Invariants of the engine under interleaved loads
\* ---------------------------------------------------------------------------

\* the call of loadAndRender that took the latest generation has not
\* completed (neither resolved nor rejected)
LatestOutstanding == \E i \in 1..Len(loads) : loads[i].gen = loadGeneration

\* C32: in every reachable state the loading flag is set exactly when the
\* load that captured the latest generation is still outstanding; a call of
\* loadAndRender that serves a cache hit changes neither the flag nor the
\* generation counter.
C32_LoadingIffLatestOutstanding ==
    /\ [](loading <=> LatestOutstanding)
    /\ [][ev'.hit => (loading' = loading /\ loadGeneration' = loadGeneration)]_vars

\* a cache hit served while a load is in flight: the flag stays set
C32_Witness ==
    /\ ev.hit
    /\ loading
    /\ LatestOutstanding
    /\ Len(loads) = 1

\* every line of the stream was rendered by view t (a view's lines carry its
\* name)
RenderedBy(t, stream) == \A i \in 1..Len(stream) : stream[i] = t

\* C33: every cache entry holds content returned by a load of the view of
\* its own key, under any interleaving of navigation, refresh, resize and
\* completions, also when another view had become current while the load
\* was in flight.
C33_CacheEntryOfItsOwnView ==
    \A k \in DOMAIN cache :
        /\ k \in TabIds
        /\ Len(cache[k].lines) > 0
        /\ RenderedBy(k, cache[k].lines)
        /\ RenderedBy(k, cache[k].fixedRight)

\* a load was applied and cached while another view was the current one
C33_Witness ==
    /\ ev.outcome = "applied"
    /\ ev.doneVid # viewKey(currentViewId)
    /\ ~jsonMode
    /\ ev.doneVid \in DOMAIN cache
    /\ RenderedBy(ev.doneVid, cache[ev.doneVid].lines)

\* the step stored an entry under key k (a new one, or another one)
Wrote(k) == k \in DOMAIN cache' /\ (k \notin DOMAIN cache \/ cache'[k] # cache[k])

\* the step completed a load of view k that had begun at the width the
\* terminal has now
CompletedAtCurrentWidth(k) ==
    /\ cols' = cols
    /\ \E i \in 1..Len(loads) :
         /\ loads' = SubSeq(loads, 1, i - 1) \o SubSeq(loads, i + 1, Len(loads))
         /\ loads[i].vid.tab = k
         /\ loads[i].width = cols

\* the two-stream layout of the wallet and of the proposals list is stored
\* only while the terminal is wide
LayoutFitsWidth ==
    \A k \in DOMAIN cache \cap {"wallet", "proposals"} :
        Len(cache[k].fixedRight) > 0 => cols >= 80

\* C34: every cache entry was produced by a load that began at the current
\* terminal width: an entry is only ever stored by the completion of a load
\* begun at the width the terminal has at that moment, and a change of width
\* leaves the cache empty, so a load in flight across a resize never stores
\* its result.
C34_EntriesOfCurrentWidth ==
    /\ [][\A k \in TabIds : Wrote(k) => CompletedAtCurrentWidth(k)]_vars
    /\ [][cols' # cols => DOMAIN cache' = {}]_vars
    /\ []LayoutFitsWidth

\* after a resize: a load begun at the old width is still in flight and the
\* load begun by the resize has stored its result
C34_Witness ==
    /\ \E i \in 1..Len(loads) : loads[i].width # cols
    /\ ev.outcome = "applied"
    /\ ev.doneVid \in DOMAIN cache
    /\ cache[ev.doneVid].ts = now

\* ---------------------------------------------------------------------------
\* A refresh on the wallet tab while the wallet's data fetch is under way.
\* RefreshedOnWallet is the state OnWalletTab is in after the load in flight
\* went on to its data fetch (Advance) and 'r' was pressed (Refresh): the
\* load of generation 3 is fetching, _cache is null again, and the forced
\* reload, generation 4, waits for dao.getWallet()
\* ---------------------------------------------------------------------------

\* the generation of the forced reload in this state
ForcedGen == MaxGenWallet - 1

RefreshedOnWallet ==
    /\ tab = "wallet"
    /\ scrollOffset = 0
    /\ cursor = 0
    /\ viewStack = <<>>
    /\ jsonMode = FALSE
    /\ cache = CacheClear
    /\ currentLines = <<>>
    /\ currentFixedRight = <<>>
    /\ loading = TRUE
    /\ loadGeneration = ForcedGen
    /\ pendingScrollTo = FALSE
    /\ stopKeyListener = TRUE
    /\ removeResizeListener = TRUE
    /\ loads = <<[NewLoad(ForcedGen - 1, ViewId("wallet"), cols, 0, 0, StartTime)
                    EXCEPT !.status = "await2"],
                 NewLoad(ForcedGen, ViewId("wallet"), cols, 0, 0, StartTime)>>
    /\ listCacheTs = 0
    /\ proposalCount = 0
    /\ propCursor = 0
    /\ walletCacheTs = 0
    /\ accountIdx = 0
    /\ accountCount = 1
    /\ selectedLine = 0
    /\ isRawMode = TRUE
    /\ isTTY = TRUE
    /\ stdinRaw = TRUE
    /\ altScreen = TRUE
    /\ cursorHidden = TRUE
    /\ exitCode = Running
    /\ keyListener = TRUE
    /\ resizeListener = TRUE
    /\ now = StartTime
    /\ <<rows, cols>> \in TermSizes
    /\ escTimer = NoTimer
    /\ escChunk = 0
    /\ arrived = <<>>
    /\ delivered = <<>>
    /\ ev = [EvNone EXCEPT !.lar = "forced", !.started = TRUE]
    /\ written = <<EnterSeq>>
    /\ calls = <<>>
    /\ call = NoCall

InitRefreshed ==
    /\ \E sz \in TermSizes : rows = sz[1] /\ cols = sz[2]
    /\ RefreshedOnWallet
    /\ genLimit = MaxGenWallet

SpecRefreshed == InitRefreshed /\ [][NextWallet]_vars

\* C35: the content displayed when the forced reload completes is built
\* from provider data whose fetch began after the refresh was requested:
\* the forced reload completes out of a data fetch of its own, never out of
\* the view's cache as an older load in flight has filled it since.
C35_ForcedReloadFetchesAfresh ==
    [][(ev'.outcome = "applied" /\ ev'.done = ForcedGen) =>
          \E i \in 1..Len(loads) :
              /\ loads[i].gen = ForcedGen
              /\ loads[i].status = "await2"
              /\ walletCacheTs' = now]_vars

\* the offset so cut down to what the content shown after the step allows
ClampedTo(so) ==
    LET total == IF Len(currentLines') >= Len(currentFixedRight')
                 THEN Len(currentLines') ELSE Len(currentFixedRight')
        last == IF total - (rows - 3) > 0 THEN total - (rows - 3) ELSE 0
    IN IF so > last THEN last ELSE so

\* C36: a pending-scroll target set by a wallet sub-navigation only adjusts
\* the scroll offset of wallet content: when the load of another view
\* completes while the target is pending, scrollOffset stays at the value the
\* tab switch and the scroll keys gave it (cut down to the new content's last
\* page, as after every completion).
C36_PendingScrollOnlyOnWallet ==
    [][(pendingScrollTo /\ ev'.outcome \in {"applied", "error"}
        /\ ev'.doneVid # "wallet")
       => scrollOffset' = ClampedTo(scrollOffset)]_vars

\* C37: whenever JSON mode is on and no load is in progress, the content on
\* screen has no right-hand stream: the frame is composed in single-stream
\* mode, and a right-hand stream of a load begun outside JSON mode is never
\* the settled content of JSON mode.
C37_JsonModeHasOneStream ==
    (Started /\ jsonMode /\ ~loading) => Len(currentFixedRight) = 0

\* in a wide terminal the proposals view returned two streams to a load
\* completed in JSON mode; one stream is shown
C37_Witness ==
    /\ jsonMode
    /\ ~loading
    /\ ev.outcome = "applied"
    /\ ev.doneVid = "proposals"
    /\ cols >= 80
    /\ proposalCount > 0
    /\ Len(currentFixedRight) = 0
    /\ Len(currentLines) > 0

\* ---------------------------------------------------------------------------
\* The key listener once it was stopped
\* ---------------------------------------------------------------------------

MaxItems == 5

keepOnCycle == <<appVars, tuiVars, listCacheTs, walletCacheTs, selectedLine,
                 termVars, envVars, inputVars, ev, libVars>>

\* cycleProposalCursor(dir)
CycleProposalKey(dir) ==
    /\ propCursor' = CycleProposalCursor(propCursor, dir, proposalCount)
    /\ UNCHANGED <<proposalCount, accountIdx, accountCount, keepOnCycle>>

\* cycleWalletAccount(dir)
CycleAccountKey(dir) ==
    /\ accountIdx' = CycleWalletAccount(accountIdx, dir, accountCount)
    /\ UNCHANGED <<accountCount, propCursor, proposalCount, keepOnCycle>>

\* proposalsListView.load: _proposalIds is set, then the cursor is reset when
\* it is past the end
ProposalsListed(n) ==
    /\ proposalCount' = n
    /\ propCursor' = ResetIndex(propCursor, n)
    /\ UNCHANGED <<accountIdx, accountCount, keepOnCycle>>

\* walletView.load: the main wallet and n - 1 escrows
AccountsListed(n) ==
    /\ accountCount' = n
    /\ accountIdx' = ResetIndex(accountIdx, n)
    /\ UNCHANGED <<propCursor, proposalCount, keepOnCycle>>

NextCycle ==
    \/ \E dir \in {1, -1} : CycleProposalKey(dir)
    \/ \E dir \in {1, -1} : CycleAccountKey(dir)
    \/ \E n \in 0..MaxItems : ProposalsListed(n)
    \/ \E n \in 1..MaxItems : AccountsListed(n)

SpecCycle == Init /\ [][NextCycle]_vars

\* the index after k steps forward
RECURSIVE ProposalForward(_, _, _)
ProposalForward(c, count, k) ==
    IF k = 0 THEN c
    ELSE ProposalForward(CycleProposalCursor(c, 1, count), count, k - 1)

RECURSIVE AccountForward(_, _, _)
AccountForward(idx, count, k) ==
    IF k = 0 THEN idx
    ELSE AccountForward(CycleWalletAccount(idx, 1, count), count, k - 1)

\* C39: under any interleaving of cycling and loads the proposal cursor is in
\* 0 .. max(1, number of proposals) - 1 and the wallet account index in
\* 0 .. account count - 1; from every such index a step forward and a step
\* back (or back and forward) return to it, count steps forward return to
\* it, and a step changes nothing with no proposals or with one account.
C39_SelectionInRange ==
    /\ 0 <= propCursor
    /\ propCursor < (IF proposalCount > 1 THEN proposalCount ELSE 1)
    /\ 0 <= accountIdx
    /\ accountIdx < accountCount
    /\ CycleProposalCursor(CycleProposalCursor(propCursor, 1, proposalCount),
                           -1, proposalCount) = propCursor
    /\ CycleProposalCursor(CycleProposalCursor(propCursor, -1, proposalCount),
                           1, proposalCount) = propCursor
    /\ CycleWalletAccount(CycleWalletAccount(accountIdx, 1, accountCount),
                          -1, accountCount) = accountIdx
    /\ CycleWalletAccount(CycleWalletAccount(accountIdx, -1, accountCount),
                          1, accountCount) = accountIdx
    /\ ProposalForward(propCursor, proposalCount, proposalCount) = propCursor
    /\ AccountForward(accountIdx, accountCount, accountCount) = accountIdx
    /\ proposalCount = 0 =>
         \A dir \in {1, -1} : CycleProposalCursor(propCursor, dir, 0) = propCursor
    /\ accountCount = 1 =>
         \A dir \in {1, -1} : CycleWalletAccount(accountIdx, dir, 1) = accountIdx

\* the last of five proposals and the last of three accounts are selected
C39_Witness ==
    /\ proposalCount = MaxItems
    /\ propCursor = MaxItems - 1
    /\ accountCount = 3
    /\ accountIdx = 2

====
